---- MODULE Spec2Model ----
(***************************************************************************)
(* A model of sparc_me.core.dataset.Dataset: the version handling, the     *)
(* tabular mutation engine, the template load / save cycle and the folder  *)
(* lifecycle with its manifest synchronisation.                            *)
(*                                                                         *)
(* Strings that the code inspects character by character (versions) are    *)
(* sequences of one-character strings.  A spreadsheet table is a record    *)
(* [cols, labels, cells]: the ordered column names, the pandas index       *)
(* labels of the rows, and one cell function per row.                      *)
(***************************************************************************)
EXTENDS Integers, Sequences, FiniteSets, TLC

VARIABLES
    version,            \* Dataset._version
    template_version,   \* Dataset._template_version
    subject_id_field,   \* Dataset._subject_id_field
    sample_id_field,    \* Dataset._sample_id_field
    vlast,              \* the last version call: its name, argument and error
    tfile,              \* the metadata file the table operations address
    ds_tab,             \* Dataset._dataset[tfile]["metadata"]
    md_tab,             \* Dataset._metadata[tfile].data
    tab_shared,         \* whether ds_tab and md_tab are one DataFrame object
    tops,               \* number of table operations performed
    tlast,              \* the last table call: its name, arguments and error
    dirs,               \* the directories on disk, as paths (component sequences)
    files,              \* the regular files on disk, as paths
    man_mem,            \* the rows of Dataset._metadata["manifest"].data
    man_disk,           \* the manifest file under the dataset root
    man_names,          \* the root entries named "*manifest*", as os.listdir lists them
    sub_rows,           \* the rows of Dataset._metadata["subjects"].data
    sam_rows,           \* the rows of Dataset._metadata["samples"].data
    counts,             \* "Number of subjects" / "Number of samples" values
    subject_index,      \* the keys of Dataset._subjects
    fops,               \* number of folder operations performed (the clock)
    flast,              \* the last folder call: its name, arguments and error
    tmpl,               \* the bundled template folders, by version
    dataset,            \* Dataset._dataset: the loaded entries
    registry,           \* Dataset._metadata: the editors, by metadata file
    outdir,             \* the spreadsheets in the folder save() writes to
    llast               \* the last load / save call: its name, arguments and error

versionVars == <<version, template_version, subject_id_field, sample_id_field, vlast>>

Null == "null"

(***************************************************************************)
(* Bounds                                                                  *)
(***************************************************************************)
MaxVerLen == 2
MaxFileRows == 2
MaxRowIndex == 4
MaxOps == 2
MaxFsOps == 2
MaxJsonOps == 1

(***************************************************************************)
(* Version handling                                                        *)
(***************************************************************************)
VersionChars == {"2", ".", "_"}

\* every string of at most n characters over VersionChars
RECURSIVE StringsUpTo(_)
StringsUpTo(n) ==
    IF n = 0 THEN {<<>>}
    ELSE LET shorter == StringsUpTo(n - 1)
         IN  shorter \cup {Append(s, c) : s \in shorter, c \in VersionChars}

\* the version strings callers pass: the documented ones and every short string
VersionInputs ==
    { <<"2", ".", "0", ".", "0">>, <<"2", "_", "0", "_", "0">>, <<"2">>,
      <<"1", ".", "2", ".", "3">>, <<"1", "_", "2", "_", "3">>,
      <<"2", ".", "0", "_", "0">>, <<"3", ".", "0", ".", "0">> }
    \cup StringsUpTo(MaxVerLen)

DEFAULT_DATASET_VERSION == <<"2", ".", "0", ".", "0">>

\* a replace that finds nothing to replace
ReplaceNothing(v) == v

\* str.replace(".", "_")
ReplaceDots(v) == [i \in 1..Len(v) |-> IF v[i] = "." THEN "_" ELSE v[i]]

Contains(v, c) == \E i \in 1..Len(v) : v[i] = c

convert_version_format(v) ==
    LET r == ReplaceDots(v)
    IN  IF ~Contains(r, "_") THEN r \o <<"_", "0", "_", "0">> ELSE r

V200 == <<"2", "_", "0", "_", "0">>
V123 == <<"1", "_", "2", "_", "3">>

\* a schema selection that knows the 2_0_0 field names only
VersionFieldsOnly200(v) ==
    IF v \in {<<"2", "_", "0", "_", "0">>, <<"1", "_", "2", "_", "3">>}
    THEN <<"subject id", "sample id">>
    ELSE "null"

\* the (subject id field, sample id field) pair of a version, or Null when the
\* version is not supported
VersionFields(v) ==
    IF v = V200 THEN <<"subject id", "sample id">>
    ELSE IF v = V123 THEN <<"subject_id", "sample_id">>
    ELSE Null

\* _set_version_specific_variables as a guarded update of the two fields
SetVersionSpecific(v) ==
    IF VersionFields(v) # Null
    THEN /\ subject_id_field' = VersionFields(v)[1]
         /\ sample_id_field' = VersionFields(v)[2]
    ELSE UNCHANGED <<subject_id_field, sample_id_field>>

VersionErr(v) == IF VersionFields(v) # Null THEN "none" ELSE "UnsupportedVersion"

set_version(v) ==
    LET n == convert_version_format(v)
    IN  /\ version' = n
        /\ SetVersionSpecific(n)
        /\ vlast' = [op |-> "set_version", arg |-> v, err |-> VersionErr(n)]
        /\ UNCHANGED template_version

set_template_version(v) ==
    LET n == convert_version_format(v)
    IN  /\ template_version' = n
        /\ SetVersionSpecific(n)
        /\ vlast' = [op |-> "set_template_version", arg |-> v, err |-> VersionErr(n)]
        /\ UNCHANGED version

VersionInit ==
    /\ version = DEFAULT_DATASET_VERSION
    /\ template_version = DEFAULT_DATASET_VERSION
    /\ subject_id_field = Null
    /\ sample_id_field = Null
    /\ vlast = [op |-> "init", arg |-> <<>>, err |-> "none"]

SetVersionCall == \E v \in VersionInputs : set_version(v)
SetTemplateVersionCall == \E v \in VersionInputs : set_template_version(v)

tableVars == <<tfile, ds_tab, md_tab, tab_shared, tops, tlast>>

fsVars == <<dirs, files, man_mem, man_disk, man_names, sub_rows, sam_rows, counts, subject_index,
           fops, flast>>

loadVars == <<tmpl, dataset, registry, outdir, llast>>

vars == <<versionVars, tableVars, fsVars, loadVars>>

(***************************************************************************)
(* Tables (pandas DataFrames)                                              *)
(***************************************************************************)
\* every column name the model uses, in the order new columns are appended
ColOrder == <<"subject id", "Metadata element", "Value", "age", "sex", "Unnamed: 2">>

AllCols == {ColOrder[i] : i \in 1..Len(ColOrder)}

Range(s) == {s[i] : i \in 1..Len(s)}

EmptyCells == [c \in AllCols |-> Null]

HasCol(t, c) == c \in Range(t.cols)

NRows(t) == Len(t.labels)

\* a column that is not there yet is appended after the existing ones
AddCol(t, c) == IF HasCol(t, c) THEN t ELSE [t EXCEPT !.cols = Append(@, c)]

RECURSIVE AddCols(_, _)
AddCols(t, cs) == IF cs = <<>> THEN t ELSE AddCols(AddCol(t, Head(cs)), Tail(cs))

PosOf(t, label) == CHOOSE i \in 1..NRows(t) : t.labels[i] = label

\* DataFrame.loc[label, header] = value: sets the cell of the row carrying
\* the label; a label that no row carries enlarges the frame by a row
loc_set(t, label, header, value) ==
    LET t1 == AddCol(t, header)
    IN  IF label \in Range(t.labels)
        THEN [t1 EXCEPT !.cells[PosOf(t, label)][header] = value]
        ELSE [t1 EXCEPT !.labels = Append(@, label),
                        !.cells = Append(@, [EmptyCells EXCEPT ![header] = value])]

\* the keys of a row dictionary, in column order
RowKeys(row) == SelectSeq(ColOrder, LAMBDA c : c \in DOMAIN row)

PadRow(row) == [c \in AllCols |-> IF c \in DOMAIN row THEN row[c] ELSE Null]

\* a concat that keeps only the columns the table already has (join="inner")
concat_row_inner(t, row) ==
    [cols |-> t.cols,
     labels |-> [i \in 1..(NRows(t) + 1) |-> i - 1],
     cells |-> Append(t.cells,
                      [c \in AllCols |-> IF HasCol(t, c) THEN PadRow(row)[c] ELSE Null])]

\* pd.concat([t, pd.DataFrame([row])], axis=0, ignore_index=True)
concat_row(t, row) ==
    LET t1 == AddCols(t, RowKeys(row))
    IN  [cols |-> t1.cols,
         labels |-> [i \in 1..(NRows(t) + 1) |-> i - 1],
         cells |-> Append(t.cells, PadRow(row))]

\* for key, value in row.items(): t.loc[label, key] = value
RECURSIVE loc_set_all(_, _, _, _)
loc_set_all(t, label, keys, row) ==
    IF keys = <<>> THEN t
    ELSE loc_set_all(loc_set(t, label, Head(keys), row[Head(keys)]), label, Tail(keys), row)

\* the labels of the rows whose cell under column equals value
MatchingLabels(t, column, value) ==
    {t.labels[i] : i \in {j \in 1..NRows(t) : t.cells[j][column] = value}}

\* utils.check_row_exist: the index label of the one matching row, -1 when
\* no row matches, a ValueError when several do
check_row_exist(t, unique_column, unique_value) ==
    LET m == MatchingLabels(t, unique_column, unique_value)
    IN  IF m = {} THEN [raises |-> FALSE, index |-> -1]
        ELSE IF Cardinality(m) > 1 THEN [raises |-> TRUE, index |-> -1]
        ELSE [raises |-> FALSE, index |-> CHOOSE l \in m : TRUE]

(***************************************************************************)
(* Mutation engine                                                         *)
(***************************************************************************)
NoCall == [op |-> "init", row_index |-> 0, header |-> Null, value |-> Null,
           row |-> <<>>, check_exist |-> FALSE, unique_column |-> Null,
           row_name |-> Null, doc |-> <<>>, err |-> "none"]

\* an in-place update of the DataFrame held by the dataset entry: the
\* registry editor sees it when both hold the same object
MutateEntryInPlace(t) ==
    /\ ds_tab' = t
    /\ md_tab' = IF tab_shared THEN t ELSE md_tab
    /\ UNCHANGED tab_shared

\* set_field with an integer row_index
set_field(row_index, header, value) ==
    /\ tops < MaxOps
    /\ tops' = tops + 1
    /\ UNCHANGED tfile
    /\ MutateEntryInPlace(loc_set(ds_tab, row_index - 2, header, value))
    /\ tlast' = [NoCall EXCEPT !.op = "set_field", !.row_index = row_index,
                    !.header = header, !.value = value]

\* set_field with a row_index that is not an integer
set_field_not_int(header, value) ==
    /\ tops < MaxOps
    /\ tops' = tops + 1
    /\ tlast' = [NoCall EXCEPT !.op = "set_field", !.header = header,
                    !.value = value, !.err = "InvalidArgument"]
    /\ UNCHANGED <<tfile, ds_tab, md_tab, tab_shared>>

\* the 0-based positions of the rows named row_name, not their labels
matching_positions(t, row_name) ==
    LET hits == SelectSeq([i \in 1..NRows(t) |-> i],
                          LAMBDA i : t.cells[i][t.cols[1]] = row_name)
    IN  [j \in 1..Len(hits) |-> hits[j] - 1]

\* metadata.index[metadata[metadata.columns[0]] == row_name].tolist()
matching_indices(t, row_name) ==
    LET hits == SelectSeq([i \in 1..NRows(t) |-> i],
                          LAMBDA i : t.cells[i][t.cols[1]] = row_name)
    IN  [j \in 1..Len(hits) |-> t.labels[hits[j]]]

\* set_field_using_row_name with a string row_name: the row is resolved on
\* the first column and set_field is called with its label + 2
set_field_using_row_name(row_name, header, value) ==
    LET call == [NoCall EXCEPT !.op = "set_field_using_row_name",
                    !.row_name = row_name, !.header = header, !.value = value]
        found == matching_indices(ds_tab, row_name)
    IN  /\ tops < MaxOps
        /\ tops' = tops + 1
        /\ UNCHANGED tfile
        /\ IF ds_tab.cols = <<>>
           THEN /\ tlast' = [call EXCEPT !.err = "IndexError"]
                /\ UNCHANGED <<ds_tab, md_tab, tab_shared>>
           ELSE IF found = <<>>
           THEN /\ tlast' = [call EXCEPT !.err = "RowNotFound"]
                /\ UNCHANGED <<ds_tab, md_tab, tab_shared>>
           ELSE IF Len(found) > 1
           THEN /\ tlast' = [call EXCEPT !.err = "AmbiguousRow"]
                /\ UNCHANGED <<ds_tab, md_tab, tab_shared>>
           ELSE /\ tlast' = [call EXCEPT !.row_index = found[1] + 2]
                /\ MutateEntryInPlace(loc_set(ds_tab, (found[1] + 2) - 2, header, value))

\* the outcome of append on the editor's table: <<error, table>>
AppendOutcome(t, row, check_exist, unique_column) ==
    IF check_exist /\ unique_column = Null THEN <<"InvalidArgument", t>>
    ELSE IF check_exist /\ unique_column \notin DOMAIN row THEN <<"KeyError", t>>
    ELSE IF check_exist /\ ~HasCol(t, unique_column) THEN <<"KeyError", t>>
    ELSE LET found == IF check_exist
                      THEN check_row_exist(t, unique_column, row[unique_column])
                      ELSE [raises |-> FALSE, index |-> -1]
             row_index == found.index
         IN  IF found.raises THEN <<"InvalidArgument", t>>
             ELSE IF row_index = -1 THEN <<"none", concat_row(t, row)>>
             ELSE <<"none", loc_set_all(t, row_index, RowKeys(row), row)>>

append(row, check_exist, unique_column) ==
    LET out == AppendOutcome(md_tab, row, check_exist, unique_column)
    IN  /\ tops < MaxOps
        /\ tops' = tops + 1
        /\ UNCHANGED tfile
        /\ tlast' = [NoCall EXCEPT !.op = "append", !.row = row,
                        !.check_exist = check_exist,
                        !.unique_column = unique_column, !.err = out[1]]
        /\ IF out[1] = "none"
           THEN /\ md_tab' = out[2]
                /\ ds_tab' = out[2]
                /\ tab_shared' = TRUE
           ELSE UNCHANGED <<ds_tab, md_tab, tab_shared>>

column_based == {"dataset_description", "code_description"}

add_element(element) ==
    /\ tops < MaxOps
    /\ tops' = tops + 1
    /\ UNCHANGED tfile
    /\ tlast' = [NoCall EXCEPT !.op = "add_element", !.header = element]
    /\ IF tfile \in column_based
       THEN /\ ds_tab' = concat_row(ds_tab, [c \in {"Metadata element"} |-> element])
            /\ tab_shared' = FALSE
            /\ UNCHANGED md_tab
       ELSE MutateEntryInPlace(
                [AddCol(ds_tab, element) EXCEPT
                    !.cells = [i \in 1..NRows(ds_tab) |->
                                  [ds_tab.cells[i] EXCEPT ![element] = Null]]])

(***************************************************************************)
(* update_by_json                                                          *)
(***************************************************************************)
\* the values of a JSON document: a string, an integer and a list; a list
\* object is written "<list [x]>" and its literal text "[x]", an integer
\* "<int 5>" and its text "5"
JsonValues == {"<int 5>", "<list [x]>"}

\* isinstance(value, list)
IsList(value) == value = "<list [x]>"

\* str(value)
StrOf(value) ==
    CASE value = "<list [x]>" -> "[x]"
      [] value = "<int 5>" -> "5"
      [] OTHER -> value

\* "    " + key_1
Indent(key_1) ==
    CASE key_1 = "b" -> "    b"
      [] key_1 = "c" -> "    c"
      [] OTHER -> "    ?"

\* metadata.index[metadata['Metadata element'] == field].tolist()
element_indices(t, field) ==
    LET hits == SelectSeq([i \in 1..NRows(t) |-> i],
                          LAMBDA i : t.cells[i]["Metadata element"] = field)
    IN  [j \in 1..Len(hits) |-> t.labels[hits[j]]]

\* index = ...tolist()[0]; metadata.loc[index, "Value"] = value. Whether
\* pandas stores a list object in one cell or refuses it depends on the
\* list and on the pandas release: list_ok is that outcome
store_value(t, field, value, list_ok) ==
    LET index == element_indices(t, field)
    IN  IF index = <<>> THEN [t |-> t, err |-> "IndexError"]
        ELSE IF IsList(value) /\ ~list_ok THEN [t |-> t, err |-> "ValueError"]
        ELSE [t |-> loc_set(t, index[1], "Value", value), err |-> "none"]

\* dataset.py 609-619: for key_1, value_1 in value.items(); value_is_list is
\* isinstance(value, list) for the variable value, which the loop body
\* reassigns
RECURSIVE update_nested(_, _, _, _)
update_nested(t, items, value_is_list, list_ok) ==
    IF items = <<>> THEN [t |-> t, err |-> "none"]
    ELSE LET value_1 == Head(items)[2]
             value == IF value_is_list THEN StrOf(value_1) ELSE value_1
             r == store_value(t, Indent(Head(items)[1]), value, list_ok)
         IN  IF r.err # "none" THEN r
             ELSE update_nested(r.t, Tail(items), IsList(value), list_ok)

\* dataset.py 607-628: for key, value in data.items()
RECURSIVE update_entries(_, _, _)
update_entries(t, data, list_ok) ==
    IF data = <<>> THEN [t |-> t, err |-> "none"]
    ELSE LET entry == Head(data)
             r == IF entry.is_dict
                  THEN update_nested(t, entry.items, FALSE, list_ok)
                  ELSE IF IsList(entry.value)
                  THEN store_value(t, entry.key, StrOf(entry.value), list_ok)
                  ELSE store_value(t, entry.key, entry.value, list_ok)
         IN  IF r.err # "none" THEN r
             ELSE update_entries(r.t, Tail(data), list_ok)

\* update_by_json on the loaded dataset description; the table is updated
\* in place, cell by cell, up to the key that fails
update_by_json(data, list_ok) ==
    LET r == update_entries(ds_tab, data, list_ok)
    IN  /\ tops < MaxJsonOps
        /\ tops' = tops + 1
        /\ UNCHANGED tfile
        /\ MutateEntryInPlace(r.t)
        /\ tlast' = [NoCall EXCEPT !.op = "update_by_json", !.doc = data, !.err = r.err]

(***************************************************************************)
(* The table a metadata file is loaded into                                *)
(***************************************************************************)
IdCol(f) == IF f \in column_based THEN "Metadata element" ELSE "subject id"

ExtraCol(f) == IF f \in column_based THEN "Value" ELSE "age"

Ids == {"sub-1", "sub-2"}

\* the rows of a spreadsheet: a data row names its identifier, an empty row
\* has no cell set
FileRows(f) == {EmptyCells} \cup {[EmptyCells EXCEPT ![IdCol(f)] = id] : id \in Ids}

RECURSIVE SeqsUpTo(_, _)
SeqsUpTo(S, n) ==
    IF n = 0 THEN {<<>>}
    ELSE LET shorter == SeqsUpTo(S, n - 1)
         IN  shorter \cup {Append(s, x) : s \in shorter, x \in S}

\* the positions of the rows DataFrame.dropna(how="all") keeps
KeptRows(raw) == SelectSeq([i \in 1..Len(raw) |-> i], LAMBDA i : raw[i] # EmptyCells)

\* pd.read_excel followed by dropna(how="all"): the rows that are not
\* entirely empty, each keeping the label of its position in the sheet
read_and_dropna(cols, raw) ==
    LET kept == KeptRows(raw)
    IN  [cols |-> cols,
         labels |-> [i \in 1..Len(kept) |-> kept[i] - 1],
         cells |-> [i \in 1..Len(kept) |-> raw[kept[i]]]]

TableFiles == {"subjects", "dataset_description"}

TableInit ==
    /\ tfile \in TableFiles
    /\ \E raw \in SeqsUpTo(FileRows(tfile), MaxFileRows) :
          ds_tab = read_and_dropna(<<IdCol(tfile), ExtraCol(tfile)>>, raw)
    /\ md_tab = ds_tab
    /\ tab_shared = TRUE
    /\ tops = 0
    /\ tlast = NoCall

TableIdle ==
    /\ tfile = "subjects"
    /\ ds_tab = [cols |-> <<>>, labels |-> <<>>, cells |-> <<>>]
    /\ md_tab = ds_tab
    /\ tab_shared = TRUE
    /\ tops = 0
    /\ tlast = NoCall

\* the arguments callers pass
RowIndexes == 1..MaxRowIndex

FieldValues == {<<IdCol(tfile), "sub-1">>, <<"sex", "F">>}

AppendRows ==
    LET f == tfile
    IN  {[c \in {IdCol(f), ExtraCol(f)} |->
                 IF c = IdCol(f) THEN id ELSE "30"] : id \in Ids}
        \cup {[c \in {IdCol(f), "sex"} |->
                 IF c = IdCol(f) THEN "sub-1" ELSE "F"]}
        \cup {[c \in {"sex"} |-> "F"]}

SetFieldCall ==
    \E k \in RowIndexes, hv \in FieldValues : set_field(k, hv[1], hv[2])

SetFieldNotIntCall ==
    \E hv \in FieldValues : set_field_not_int(hv[1], hv[2])

AppendCall ==
    \E row \in AppendRows, ce \in BOOLEAN, uc \in {IdCol(tfile), Null} :
        append(row, ce, uc)

AddElementCall == \E e \in {"sex", "age"} : add_element(e)

RowNames == {"sub-1", "sub-9"}

SetFieldUsingRowNameCall ==
    \E row_name \in RowNames : set_field_using_row_name(row_name, "sex", "F")

\* the rows of a dataset description: an empty row, a top-level element and
\* two elements nested one level
JsonFileRows ==
    {EmptyCells} \cup {[EmptyCells EXCEPT !["Metadata element"] = e] :
                          e \in {"a", "    b", "    c"}}

JsonTableInit ==
    /\ tfile = "dataset_description"
    /\ \E raw \in SeqsUpTo(JsonFileRows, MaxFileRows) :
          ds_tab = read_and_dropna(<<"Metadata element", "Value">>, raw)
    /\ md_tab = ds_tab
    /\ tab_shared = TRUE
    /\ tops = 0
    /\ tlast = NoCall

JsonEntry(key, value) == [key |-> key, is_dict |-> FALSE, value |-> value, items |-> <<>>]

JsonDict(key, items) == [key |-> key, is_dict |-> TRUE, value |-> Null, items |-> items]

\* the key/value pairs of a nested object: one or two different keys
JsonItems ==
    {s \in SeqsUpTo({"b", "c"} \X JsonValues, 2) :
        /\ s # <<>>
        /\ \A i, j \in 1..Len(s) : s[i][1] = s[j][1] => i = j}

\* the documents: one top-level key (present or not in the table), one
\* nested object, or a top-level key followed by a nested object
JsonDocs ==
    {<<JsonEntry(k, v)>> : k \in {"a", "z"}, v \in JsonValues}
    \cup {<<JsonDict("d", items)>> : items \in JsonItems}
    \cup {<<JsonEntry("a", v), JsonDict("d", <<kv>>)>> :
             v \in JsonValues, kv \in {"b"} \X JsonValues}

UpdateByJsonCall ==
    \E data \in JsonDocs, list_ok \in BOOLEAN : update_by_json(data, list_ok)

JsonNext == UpdateByJsonCall /\ UNCHANGED <<versionVars, fsVars, loadVars>>

TableNext ==
    \/ SetFieldCall /\ UNCHANGED <<versionVars, fsVars, loadVars>>
    \/ SetFieldNotIntCall /\ UNCHANGED <<versionVars, fsVars, loadVars>>
    \/ AppendCall /\ UNCHANGED <<versionVars, fsVars, loadVars>>
    \/ AddElementCall /\ UNCHANGED <<versionVars, fsVars, loadVars>>
    \/ SetFieldUsingRowNameCall /\ UNCHANGED <<versionVars, fsVars, loadVars>>

VersionNext ==
    \/ SetVersionCall /\ UNCHANGED <<tableVars, fsVars, loadVars>>
    \/ SetTemplateVersionCall /\ UNCHANGED <<tableVars, fsVars, loadVars>>

(***************************************************************************)
(* The file system: paths are sequences of components                      *)
(***************************************************************************)
\* Dataset._dataset_path
Root == <<"ds">>

IsPrefix(p, q) == Len(p) <= Len(q) /\ SubSeq(q, 1, Len(p)) = p

Name(p) == p[Len(p)]

Parent(p) == SubSeq(p, 1, Len(p) - 1)

PathExists(w, p) == p \in w.dirs \cup w.files

\* Path.iterdir / os.listdir: the direct children of a directory
Children(w, p) == {q \in w.dirs \cup w.files : Len(q) = Len(p) + 1 /\ IsPrefix(p, q)}

\* shutil.rmtree
rmtree(w, p) ==
    [w EXCEPT !.dirs = {q \in @ : ~IsPrefix(p, q)},
              !.files = {q \in @ : ~IsPrefix(p, q)}]

\* os.makedirs: the directory and every missing ancestor
makedirs(w, p) ==
    [w EXCEPT !.dirs = @ \cup {SubSeq(p, 1, i) : i \in 1..Len(p)}]

\* the path below the dataset root: str.replace(root, "")[1:]
StripRoot(p) == SubSeq(p, Len(Root) + 1, Len(p))

\* os.path.splitext(fname)[-1]
SplitExt(fname) ==
    CASE fname = "a.txt" -> ".txt"
      [] fname = "b.PNG" -> ".PNG"
      [] fname = "manifest.xlsx" -> ".xlsx"
      [] fname = "manifest.csv" -> ".csv"
      [] fname = "manifest.json" -> ".json"
      [] fname = "manifest.txt" -> ".txt"
      [] fname = "old_manifest.bak" -> ".bak"
      [] OTHER -> ""

\* str.lower()[1:] of an extension
LowerNoDot(ext) ==
    CASE ext = ".txt" -> "txt"
      [] ext = ".PNG" -> "png"
      [] OTHER -> ""

Ok(w) == [w |-> w, err |-> "none"]

Fail(w, e) == [w |-> w, err |-> e]

(***************************************************************************)
(* The metadata editors (sparc_me.core.metadata.Metadata)                  *)
(***************************************************************************)
\* Metadata.remove_row on the manifest: the rows naming the file are dropped
manifest_remove_row(rows, key) == SelectSeq(rows, LAMBDA r : r.filename # key)

\* Metadata.remove_row on the subjects / samples table
table_remove_row(rows, name) == {r \in rows : \A c \in DOMAIN r : r[c] # name}

\* Metadata.save of the manifest editor
manifest_save(w) ==
    [w EXCEPT !.man_disk = [exists |-> TRUE, rows |-> w.man_mem],
              !.man_names = IF w.man_disk.exists THEN @ ELSE Append(@, "manifest.xlsx")]

\* utils.get_sub_folder_paths_in_folder
get_sub_folder_paths_in_folder(w, p) == Children(w, p) \cap w.dirs

(***************************************************************************)
(* Manifest synchroniser                                                   *)
(***************************************************************************)
\* the upsert that appends even when the filename is already listed
UpsertAlwaysAppend(rows, row) == Append(rows, row)

\* the upsert that also overwrites the description of the existing row
UpsertOverwriteDescription(rows, row) ==
    IF \E i \in 1..Len(rows) : rows[i].filename = row.filename
    THEN [i \in 1..Len(rows) |->
            IF rows[i].filename = row.filename
            THEN [rows[i] EXCEPT !.timestamp = row.timestamp,
                                 !.description = row.description]
            ELSE rows[i]]
    ELSE Append(rows, row)

\* dataset.py 850-855
Upsert(rows, row) ==
    IF \E i \in 1..Len(rows) : rows[i].filename = row.filename
    THEN [i \in 1..Len(rows) |->
            IF rows[i].filename = row.filename
            THEN [rows[i] EXCEPT !.timestamp = row.timestamp]
            ELSE rows[i]]
    ELSE Append(rows, row)

ManifestRow(fname, destination_path, description, now) ==
    [filename |-> StripRoot(Append(destination_path, fname)),
     timestamp |-> now,
     description |-> description,
     filetype |-> LowerNoDot(SplitExt(fname))]

\* _modify_manifest: the first listed entry whose name contains "manifest"
\* is read according to its extension, the row is upserted, the registry is
\* updated and the file is written back (.xlsx), the write raises (.csv:
\* pandas has no to_csv function) or is left out (.json)
modify_manifest(w, fname, destination_path, description, now) ==
    LET found == w.man_names # <<>>
        extension == IF found THEN SplitExt(Head(w.man_names)) ELSE ".xlsx"
        df == IF found THEN w.man_disk.rows ELSE <<>>
        df2 == Upsert(df, ManifestRow(fname, destination_path, description, now))
        updated == [w EXCEPT !.man_mem = df2]
    IN  IF extension \notin {".xlsx", ".csv", ".json"}
        THEN Fail(w, "UnsupportedManifestFormat")
        ELSE IF extension = ".xlsx"
        THEN Ok([updated EXCEPT !.man_disk = [exists |-> TRUE, rows |-> df2],
                                !.man_names = IF found THEN @ ELSE <<"manifest.xlsx">>])
        ELSE IF extension = ".csv" THEN Fail(updated, "AttributeError")
        ELSE Ok(updated)

\* _move_single_file: shutil.copy2(file_path, destination_path) copies into
\* a directory or onto a file path whose parent exists;
\* shutil.move(file_path, destination_path/fname) needs destination_path to
\* be a directory
move_single_file(w, file_path, destination_path, fname, copy) ==
    LET target == IF copy /\ destination_path \notin w.dirs
                  THEN destination_path
                  ELSE Append(destination_path, IF copy THEN Name(file_path) ELSE fname)
    IN  IF file_path \notin w.files THEN Fail(w, "FileNotFound")
        ELSE IF Parent(target) \notin w.dirs THEN Fail(w, "FileNotFound")
        ELSE Ok([w EXCEPT !.files = (IF copy THEN @ ELSE @ \ {file_path})
                                      \cup {target}])

(***************************************************************************)
(* Delete functions                                                        *)
(***************************************************************************)
\* _delete_data: <<world, delete_flag>>
delete_data_private(w, p) ==
    IF p \in w.files THEN <<[w EXCEPT !.files = @ \ {p}], TRUE>>
    ELSE IF p \in w.dirs THEN <<rmtree(w, p), FALSE>>
    ELSE <<w, FALSE>>

\* delete_data without the manifest update
delete_data_keep_row(w, p) ==
    IF ~PathExists(w, p) THEN Fail(w, "NotFound")
    ELSE Ok(delete_data_private(w, p)[1])

\* delete_data that also drops the manifest rows below a deleted directory
delete_data_dir_rows(w, p) ==
    IF ~PathExists(w, p) THEN Fail(w, "NotFound")
    ELSE LET d == delete_data_private(w, p)
         IN  Ok(manifest_save([d[1] EXCEPT
                   !.man_mem = SelectSeq(@, LAMBDA r : ~IsPrefix(StripRoot(p), r.filename))]))

delete_data(w, p) ==
    IF ~PathExists(w, p) THEN Fail(w, "NotFound")
    ELSE LET d == delete_data_private(w, p)
         IN  IF d[2]
             THEN Ok(manifest_save([d[1] EXCEPT
                        !.man_mem = manifest_remove_row(@, StripRoot(p))]))
             ELSE Ok(d[1])

\* for item in sam_folder.iterdir(): self.delete_data(item)
RECURSIVE delete_items(_, _)
delete_items(w, items) ==
    IF items = {} THEN w
    ELSE LET p == CHOOSE q \in items : TRUE
         IN  delete_items(delete_data(w, p).w, items \ {p})

PrimaryFolder == Append(Root, "primary")

\* the sample folders: the sub-folders of every subject folder
CountSamples(w, subject_folders) ==
    Cardinality({q \in w.dirs : Len(q) > 1 /\ Parent(q) \in subject_folders})

\* a recompute that is skipped
update_sub_sam_nums_skip(w, primary_folder) ==
    IF primary_folder \notin w.dirs THEN Fail(w, "NotFound") ELSE Ok(w)

\* _update_sub_sam_nums_in_dataset_description
update_sub_sam_nums(w, primary_folder) ==
    IF primary_folder \notin w.dirs THEN Fail(w, "NotFound")
    ELSE LET subject_folders == get_sub_folder_paths_in_folder(w, primary_folder)
         IN  Ok([w EXCEPT !.counts = [subjects |-> Cardinality(subject_folders),
                                      samples |-> CountSamples(w, subject_folders)]])

\* a delete_sample that updates the counts and the samples table whatever
\* the data type
delete_sample_any_type(w, p, data_type) ==
    IF ~PathExists(w, p) THEN Fail(w, "NotFound")
    ELSE IF p \notin w.dirs THEN Fail(w, "InvalidArgument")
    ELSE LET w1 == delete_items(w, Children(w, p))
             w2 == [w1 EXCEPT !.dirs = @ \ {p}]
             u == update_sub_sam_nums(w2, PrimaryFolder)
         IN  IF u.err # "none" THEN u
             ELSE Ok([u.w EXCEPT !.sam_rows = table_remove_row(@, Name(p))])

delete_sample(w, p, data_type) ==
    IF ~PathExists(w, p) THEN Fail(w, "NotFound")
    ELSE IF p \notin w.dirs THEN Fail(w, "InvalidArgument")
    ELSE LET w1 == delete_items(w, Children(w, p))
             w2 == [w1 EXCEPT !.dirs = @ \ {p}]
         IN  IF data_type # "primary" THEN Ok(w2)
             ELSE LET u == update_sub_sam_nums(w2, PrimaryFolder)
                  IN  IF u.err # "none" THEN u
                      ELSE Ok([u.w EXCEPT !.sam_rows = table_remove_row(@, Name(p))])

\* for sam_folder in sub_folder.iterdir(): if is_dir: delete_sample(...)
RECURSIVE delete_sample_folders(_, _, _)
delete_sample_folders(w, folders, data_type) ==
    IF folders = {} THEN Ok(w)
    ELSE LET p == CHOOSE q \in folders : TRUE
             r == delete_sample(w, p, data_type)
         IN  IF r.err # "none" THEN r
             ELSE delete_sample_folders(r.w, folders \ {p}, data_type)

delete_subject(w, p, data_type) ==
    IF ~PathExists(w, p) THEN Fail(w, "NotFound")
    ELSE IF p \notin w.dirs THEN Fail(w, "InvalidArgument")
    ELSE LET r == delete_sample_folders(w, Children(w, p) \cap w.dirs, data_type)
         IN  IF r.err # "none" THEN r
             ELSE IF Children(r.w, p) # {} THEN Fail(r.w, "DirectoryNotEmpty")
             ELSE LET w2 == [r.w EXCEPT !.dirs = @ \ {p}]
                  IN  IF data_type # "primary" THEN Ok(w2)
                      ELSE LET u == update_sub_sam_nums(w2, PrimaryFolder)
                           IN  IF u.err # "none" THEN u
                               ELSE Ok([u.w EXCEPT
                                          !.sub_rows = table_remove_row(@, Name(p))])

\* delete_samples: for sam_folder in destination_paths: delete_sample(...)
RECURSIVE delete_samples(_, _, _, _)
delete_samples(w, destination_paths, is_list, data_type) ==
    IF ~is_list THEN Fail(w, "InvalidArgument")
    ELSE IF destination_paths = <<>> THEN Ok(w)
    ELSE LET r == delete_sample(w, Head(destination_paths), data_type)
         IN  IF r.err # "none" THEN r
             ELSE delete_samples(r.w, Tail(destination_paths), TRUE, data_type)

\* delete_subjects: for sub_folder in destination_paths: delete_subject(...)
RECURSIVE delete_subjects(_, _, _, _)
delete_subjects(w, destination_paths, is_list, data_type) ==
    IF ~is_list THEN Fail(w, "InvalidArgument")
    ELSE IF destination_paths = <<>> THEN Ok(w)
    ELSE LET r == delete_subject(w, Head(destination_paths), data_type)
         IN  IF r.err # "none" THEN r
             ELSE delete_subjects(r.w, Tail(destination_paths), TRUE, data_type)

(***************************************************************************)
(* Adding data                                                             *)
(***************************************************************************)
SampleDescription(subject, sample) == <<"File of subject", subject, "sample", sample>>

ThumbnailDescription == <<"This is a thumbnail file">>

\* the loop of dataset.py 783-795 over the listing of a source directory; it
\* returns at the first sub-directory after the warning
RECURSIVE add_items(_, _, _, _, _, _)
add_items(w, listing, destination_path, copy, description, now) ==
    IF listing = <<>> THEN Ok(w)
    ELSE LET file_path == Head(listing)
         IN  IF file_path \in w.dirs THEN Fail(w, "SubdirWarning")
             ELSE LET mv == move_single_file(w, file_path, destination_path,
                                             Name(file_path), copy)
                      mm == modify_manifest(mv.w, Name(file_path), destination_path,
                                            description, now)
                  IN  IF mv.err # "none" THEN mv
                      ELSE IF mm.err # "none" THEN mm
                      ELSE add_items(mm.w, Tail(listing), destination_path, copy,
                                     description, now)

\* a preparation that wipes the destination for a file source too
prepare_destination_wipe(w, source_path, destination_path, overwrite) ==
    IF PathExists(w, destination_path)
    THEN IF ~overwrite THEN Fail(w, "AlreadyExists")
         ELSE Ok(makedirs(rmtree(w, destination_path), destination_path))
    ELSE Ok(makedirs(w, destination_path))

\* dataset.py 760-779: the destination is prepared
prepare_destination(w, source_path, destination_path, overwrite) ==
    IF PathExists(w, destination_path)
    THEN IF ~overwrite THEN Fail(w, "AlreadyExists")
         ELSE IF source_path \in w.dirs
              THEN Ok(makedirs(rmtree(w, destination_path), destination_path))
              ELSE Ok(delete_data_private(w, Append(destination_path, Name(source_path)))[1])
    ELSE Ok(makedirs(w, destination_path))

\* _add_sample_data; listing is the order os.listdir returns the source's items in
add_sample_data(w, source_path, subject, sample, data_type, copy, overwrite, listing, now) ==
    LET destination_path == Root \o <<data_type, subject, sample>>
        description == SampleDescription(subject, sample)
        pre == prepare_destination(w, source_path, destination_path, overwrite)
    IN  IF pre.err # "none" THEN pre
        ELSE IF source_path \in pre.w.dirs
        THEN add_items(pre.w, listing, destination_path, copy, description, now)
        ELSE LET mv == move_single_file(pre.w, source_path, destination_path,
                                        Name(source_path), copy)
             IN  IF mv.err # "none" THEN mv
                 ELSE modify_manifest(mv.w, Name(source_path), destination_path,
                                      description, now)

add_derivative_data(w, source_path, subject, sample, copy, overwrite, listing, now) ==
    LET derivative_folder == Append(Root, "derivative")
    IN  IF derivative_folder \in w.files THEN Fail(w, "NotADirectory")
        ELSE add_sample_data([w EXCEPT !.dirs = @ \cup {derivative_folder}],
                             source_path, subject, sample, "derivative",
                             copy, overwrite, listing, now)

add_thumbnail(w, source_path, copy, overwrite, now) ==
    IF source_path \notin w.files THEN Fail(w, "InvalidArgument")
    ELSE LET filename == Name(source_path)
             destination_path == Root \o <<"docs", filename>>
         IN  IF PathExists(w, destination_path) /\ ~overwrite THEN Fail(w, "AlreadyExists")
             ELSE LET w1 == delete_data_private(w, destination_path)[1]
                      mv == move_single_file(w1, source_path, destination_path,
                                             filename, copy)
                  IN  IF mv.err # "none" THEN mv
                      ELSE modify_manifest(mv.w, filename, Parent(destination_path),
                                           ThumbnailDescription, now)

\* Subject.move: the subject's folder and its sample folders are created
\* under primary/, and the subject and its samples get their table rows; a
\* subject whose source data is missing raises before anything is moved
subject_move(w, subject) ==
    LET folder == Append(PrimaryFolder, subject.id)
        w1 == makedirs(w, folder)
    IN  IF ~subject.source_ok THEN Fail(w, "MoveFailed")
        ELSE Ok([w1 EXCEPT !.dirs = @ \cup {Append(folder, sam) : sam \in subject.samples},
                           !.sub_rows = @ \cup {[subject |-> subject.id]},
                           !.sam_rows = @ \cup {[subject |-> subject.id, sample |-> sam] :
                                                  sam \in subject.samples}])

\* a loop that registers a subject only after its move has returned
RECURSIVE move_subjects_register_after(_, _)
move_subjects_register_after(w, subjects) ==
    IF subjects = <<>> THEN Ok(w)
    ELSE LET mv == subject_move(w, Head(subjects))
         IN  IF mv.err # "none" THEN mv
             ELSE move_subjects_register_after(
                    [mv.w EXCEPT !.subject_index = @ \cup {Head(subjects).id}],
                    Tail(subjects))

\* dataset.py 660-662: each subject is registered, then moved
RECURSIVE move_subjects(_, _)
move_subjects(w, subjects) ==
    IF subjects = <<>> THEN Ok(w)
    ELSE LET registered == [w EXCEPT !.subject_index = @ \cup {Head(subjects).id}]
             mv == subject_move(registered, Head(subjects))
         IN  IF mv.err # "none" THEN mv
             ELSE move_subjects(mv.w, Tail(subjects))

\* Dataset.save() of the loaded dataset into its own folder: the tables are
\* written to their spreadsheets
save_in_place(w) == manifest_save(w)

add_subjects(w, subjects) ==
    LET moved == move_subjects(save_in_place(w), subjects)
    IN  IF moved.err # "none" THEN moved
        ELSE update_sub_sam_nums(moved.w, PrimaryFolder)

\* get_subject: dict.get gives None for an id that is not a key
get_subject(w, subject_sds_id, is_string) ==
    IF ~is_string THEN [w |-> w, err |-> "NotFound", result |-> Null]
    ELSE [w |-> w, err |-> "none",
          result |-> IF subject_sds_id \in w.subject_index THEN subject_sds_id ELSE Null]

\* add_subjects with an argument that is not a list
add_subjects_not_list(w) == Fail(save_in_place(w), "InvalidArgument")

(***************************************************************************)
(* Folder lifecycle: state, arguments and actions                          *)
(***************************************************************************)
World == [dirs |-> dirs, files |-> files, man_mem |-> man_mem,
          man_disk |-> man_disk, man_names |-> man_names,
          sub_rows |-> sub_rows, sam_rows |-> sam_rows,
          counts |-> counts, subject_index |-> subject_index]

NoFsCall == [op |-> "init", path |-> <<>>, subject |-> Null, sample |-> Null,
             data_type |-> Null, copy |-> FALSE, overwrite |-> FALSE,
             is_string |-> TRUE, result |-> Null, paths |-> <<>>, is_list |-> TRUE,
             err |-> "none"]

\* the call's outcome becomes the new state; the clock advances
Install(r, call) ==
    /\ fops < MaxFsOps
    /\ fops' = fops + 1
    /\ dirs' = r.w.dirs
    /\ files' = r.w.files
    /\ man_mem' = r.w.man_mem
    /\ man_disk' = r.w.man_disk
    /\ man_names' = r.w.man_names
    /\ sub_rows' = r.w.sub_rows
    /\ sam_rows' = r.w.sam_rows
    /\ counts' = r.w.counts
    /\ subject_index' = r.w.subject_index
    /\ flast' = [call EXCEPT !.err = r.err]

Ext == <<"ext">>

SourceFiles == {Append(Ext, "a.txt"), Append(Ext, "b.PNG")}

SourceDirs == {Append(Ext, "dirA"), Append(Ext, "dirB")}

\* every order of the members of a set
Perms(S) ==
    {s \in [1..Cardinality(S) -> S] : \A i, j \in 1..Cardinality(S) : s[i] = s[j] => i = j}

Subjects == {"sub-1", "sub-2"}

Samples == {"sam-1", "sam-2"}

SamplePath(data_type, sub, sam) == Root \o <<data_type, sub, sam>>

\* the primary trees a dataset is loaded with
InitTrees ==
    { {},
      {<<"sub-1", "sam-1">>},
      {<<"sub-1", "sam-1">>, <<"sub-1", "sam-2">>, <<"sub-2", "sam-1">>} }

\* the one-sample tree also holds a regular file directly in the subject
\* folder and a sub-directory in the sample folder
InitExtras(tree) == IF Cardinality(tree) = 1 THEN {"subject_file", "nested_dir"} ELSE {}

LoadedDescription == <<"loaded">>

InitThumbnail == Root \o <<"docs", "a.txt">>

InitFiles(tree, extra) ==
    {Append(SamplePath("primary", t[1], t[2]), "a.txt") : t \in tree}
    \cup (IF tree = {} THEN {} ELSE {InitThumbnail})
    \cup (IF "subject_file" \in extra THEN {Root \o <<"primary", "sub-1", "b.PNG">>} ELSE {})
    \cup (IF "nested_dir" \in extra
          THEN {Root \o <<"primary", "sub-1", "sam-1", "nested", "b.PNG">>} ELSE {})

InitDirs(tree, extra) ==
    {Root, PrimaryFolder, Append(Root, "docs")}
    \cup {Root \o <<"primary", t[1]>> : t \in tree}
    \cup {SamplePath("primary", t[1], t[2]) : t \in tree}
    \cup (IF "nested_dir" \in extra
          THEN {Root \o <<"primary", "sub-1", "sam-1", "nested">>} ELSE {})

SourceTreeDirs == {Ext, Ext \o <<"dirA">>, Ext \o <<"dirB">>, Ext \o <<"dirB", "nested">>}

SourceTreeFiles ==
    SourceFiles \cup {Ext \o <<"dirA", "a.txt">>, Ext \o <<"dirA", "b.PNG">>,
                      Ext \o <<"dirB", "a.txt">>}

\* the manifest rows of the files a loaded dataset lists, in some order
InitManifest(tree, extra) ==
    LET listed == {f \in InitFiles(tree, extra) :
                      Len(f) >= Len(Root) + 4 \/ f = InitThumbnail}
        order == CHOOSE s \in Perms(listed) : TRUE
    IN  [i \in 1..Cardinality(listed) |->
            [filename |-> StripRoot(order[i]), timestamp |-> 0,
             description |-> LoadedDescription,
             filetype |-> LowerNoDot(SplitExt(Name(order[i])))]]

FsInit ==
    \E tree \in InitTrees : \E extra \in {InitExtras(tree)} :
        /\ dirs = InitDirs(tree, extra) \cup SourceTreeDirs
        /\ files = InitFiles(tree, extra) \cup SourceTreeFiles
        /\ man_mem = InitManifest(tree, extra)
        /\ man_disk \in {[exists |-> TRUE, rows |-> man_mem]}
                         \cup (IF tree = {} THEN {[exists |-> FALSE, rows |-> <<>>]} ELSE {})
        /\ man_names = IF man_disk.exists THEN <<"manifest.xlsx">> ELSE <<>>
        /\ sub_rows = {[subject |-> t[1]] : t \in tree}
        /\ sam_rows = {[subject |-> t[1], sample |-> t[2]] : t \in tree}
        /\ counts = [subjects |-> Cardinality({t[1] : t \in tree}),
                     samples |-> Cardinality(tree)]
        /\ subject_index = {}
        /\ fops = 0
        /\ flast = NoFsCall

\* the ways a dataset folder can list its manifest: none, one manifest in
\* each on-disk form, and a spreadsheet manifest next to a backup file
ManifestListings ==
    { <<>>, <<"manifest.xlsx">>, <<"manifest.csv">>, <<"manifest.json">>,
      <<"manifest.txt">>, <<"manifest.xlsx", "old_manifest.bak">>,
      <<"old_manifest.bak", "manifest.xlsx">> }

\* a dataset without a manifest, and a dataset with listed files and a
\* manifest in any of the forms
FsFormInit ==
    \E names \in ManifestListings, tree \in {{}, {<<"sub-1", "sam-1">>}} :
        /\ tree = {} => names = <<>>
        /\ dirs = InitDirs(tree, {}) \cup SourceTreeDirs
        /\ files = InitFiles(tree, {}) \cup SourceTreeFiles
        /\ man_names = names
        /\ man_mem = IF names = <<>> THEN <<>> ELSE InitManifest(tree, {})
        /\ man_disk = [exists |-> names # <<>>, rows |-> man_mem]
        /\ sub_rows = {[subject |-> t[1]] : t \in tree}
        /\ sam_rows = {[subject |-> t[1], sample |-> t[2]] : t \in tree}
        /\ counts = [subjects |-> Cardinality({t[1] : t \in tree}),
                     samples |-> Cardinality(tree)]
        /\ subject_index = {}
        /\ fops = 0
        /\ flast = NoFsCall

FsIdle ==
    /\ dirs = {}
    /\ files = {}
    /\ man_mem = <<>>
    /\ man_disk = [exists |-> FALSE, rows |-> <<>>]
    /\ man_names = <<>>
    /\ sub_rows = {}
    /\ sam_rows = {}
    /\ counts = [subjects |-> 0, samples |-> 0]
    /\ subject_index = {}
    /\ fops = 0
    /\ flast = NoFsCall

InDataset(p) == IsPrefix(Root, p) /\ p # Root

MissingPath == Root \o <<"primary", "sub-9">>

DataTypes == {"primary", "derivative"}

\* subject folders are two levels, sample folders three levels below the root
SubjectFolders == {p \in dirs : Len(p) = Len(Root) + 2 /\ p[Len(Root) + 1] \in DataTypes}

SampleFolders == {p \in dirs : Len(p) = Len(Root) + 3 /\ Parent(p) \in SubjectFolders}

AddDerivativeDataCall ==
    \E source \in SourceFiles \cup SourceDirs, copy \in BOOLEAN, overwrite \in BOOLEAN :
      \E listing \in Perms(Children(World, source)) :
        Install(add_derivative_data(World, source, "sub-1", "sam-1", copy, overwrite,
                                    listing, fops + 1),
                [NoFsCall EXCEPT !.op = "add_derivative_data", !.path = source,
                    !.subject = "sub-1", !.sample = "sam-1",
                    !.data_type = "derivative", !.copy = copy, !.overwrite = overwrite])

AddThumbnailCall ==
    \E source \in SourceFiles \cup {Ext \o <<"dirA">>}, copy \in BOOLEAN, overwrite \in BOOLEAN :
        Install(add_thumbnail(World, source, copy, overwrite, fops + 1),
                [NoFsCall EXCEPT !.op = "add_thumbnail", !.path = source,
                    !.copy = copy, !.overwrite = overwrite])

DeleteDataCall ==
    \E p \in {q \in files \cup dirs : Len(q) > Len(Root) + 3 /\ InDataset(q)}
             \cup {q \in files : InDataset(q)} \cup {MissingPath} :
        Install(delete_data(World, p), [NoFsCall EXCEPT !.op = "delete_data", !.path = p])

DeleteSampleCall ==
    \E p \in SampleFolders \cup {MissingPath, InitThumbnail}, data_type \in DataTypes :
        Install(delete_sample(World, p, data_type),
                [NoFsCall EXCEPT !.op = "delete_sample", !.path = p,
                    !.data_type = data_type])

DeleteSubjectCall ==
    \E p \in SubjectFolders \cup {MissingPath, InitThumbnail}, data_type \in DataTypes :
        Install(delete_subject(World, p, data_type),
                [NoFsCall EXCEPT !.op = "delete_subject", !.path = p,
                    !.data_type = data_type])

\* the lists of at most three different paths out of a set of paths
PathLists(S) == {s \in SeqsUpTo(S, 3) : \A i, j \in 1..Len(s) : s[i] = s[j] => i = j}

\* the sample folders, and a path that is a regular file
DeleteSamplesPaths ==
    {SamplePath("primary", "sub-1", "sam-1"), SamplePath("primary", "sub-1", "sam-2"),
     InitThumbnail}

\* the subject folders, and a path that does not exist
DeleteSubjectsPaths ==
    {Root \o <<"primary", "sub-1">>, Root \o <<"primary", "sub-2">>, MissingPath}

DeleteSamplesCall ==
    \E destination_paths \in PathLists(DeleteSamplesPaths), is_list \in BOOLEAN :
        Install(delete_samples(World, destination_paths, is_list, "primary"),
                [NoFsCall EXCEPT !.op = "delete_samples", !.paths = destination_paths,
                    !.is_list = is_list, !.data_type = "primary"])

DeleteSubjectsCall ==
    \E destination_paths \in PathLists(DeleteSubjectsPaths), is_list \in BOOLEAN :
        Install(delete_subjects(World, destination_paths, is_list, "primary"),
                [NoFsCall EXCEPT !.op = "delete_subjects", !.paths = destination_paths,
                    !.is_list = is_list, !.data_type = "primary"])

SubjectObjects ==
    {[id |-> "sub-1", samples |-> {"sam-1", "sam-2"}, source_ok |-> TRUE],
     [id |-> "sub-2", samples |-> {"sam-1"}, source_ok |-> TRUE],
     [id |-> "sub-3", samples |-> {"sam-1"}, source_ok |-> FALSE]}

SubjectLists == {s \in SeqsUpTo(SubjectObjects, 2) : \A i, j \in 1..Len(s) : s[i] = s[j] => i = j}

AddSubjectsCall ==
    \E subjects \in SubjectLists :
        Install(add_subjects(World, subjects),
                [NoFsCall EXCEPT !.op = "add_subjects",
                    !.path = [i \in 1..Len(subjects) |-> subjects[i].id]])

AddSubjectsNotListCall ==
    Install(add_subjects_not_list(World), [NoFsCall EXCEPT !.op = "add_subjects"])

\* the ids callers look up; an id that is not a string is passed as its text
SubjectIds == {"sub-1", "sub-3", "sub-9"}

GetSubjectCall ==
    \E id \in SubjectIds, is_string \in BOOLEAN :
        LET r == get_subject(World, id, is_string)
        IN  Install(r, [NoFsCall EXCEPT !.op = "get_subject", !.subject = id,
                           !.is_string = is_string, !.result = r.result])

FsNext ==
    \/ AddDerivativeDataCall /\ UNCHANGED <<versionVars, tableVars, loadVars>>
    \/ AddThumbnailCall /\ UNCHANGED <<versionVars, tableVars, loadVars>>
    \/ DeleteDataCall /\ UNCHANGED <<versionVars, tableVars, loadVars>>
    \/ DeleteSampleCall /\ UNCHANGED <<versionVars, tableVars, loadVars>>
    \/ DeleteSubjectCall /\ UNCHANGED <<versionVars, tableVars, loadVars>>
    \/ AddSubjectsCall /\ UNCHANGED <<versionVars, tableVars, loadVars>>
    \/ AddSubjectsNotListCall /\ UNCHANGED <<versionVars, tableVars, loadVars>>
    \/ GetSubjectCall /\ UNCHANGED <<versionVars, tableVars, loadVars>>

(***************************************************************************)
(* Package loader and save                                                 *)
(***************************************************************************)
\* a spreadsheet on disk: its header and its rows, without index labels
Sheet(cols, cells) == [cols |-> cols, cells |-> cells]

\* columns.str.contains('^Unnamed')
IsUnnamed(c) == c \in {"Unnamed: 2"}

\* metadata.loc[:, ~metadata.columns.str.contains('^Unnamed')]
drop_unnamed(t) ==
    [cols |-> SelectSeq(t.cols, LAMBDA c : ~IsUnnamed(c)),
     labels |-> t.labels,
     cells |-> [i \in 1..NRows(t) |->
                  [c \in AllCols |-> IF IsUnnamed(c) THEN Null ELSE t.cells[i][c]]]]

\* the table _load makes of a spreadsheet
load_sheet(sheet) == drop_unnamed(read_and_dropna(sheet.cols, sheet.cells))

\* _get_template_dir and the folders bundled under resources/templates
TemplateVersions == {V200, V123}

\* _load of a template folder: every .xlsx becomes a table keyed by its stem,
\* every other item is kept as a path
load_dir(folder) ==
    [tables |-> [f \in DOMAIN folder.sheets |-> load_sheet(folder.sheets[f])],
     others |-> folder.others,
     none |-> FALSE]

\* dict()
EmptyDataset == [tables |-> <<>>, others |-> {}, none |-> FALSE]

\* None
NoneDataset == [tables |-> <<>>, others |-> {}, none |-> TRUE]

\* "if not self._dataset"
NotLoaded(d) == d.none \/ (DOMAIN d.tables = {} /\ d.others = {})

\* _generate_metadata: an editor per metadata file of the template, bound to
\* the table of the freshly loaded dataset (shared: the editor and the
\* dataset entry hold the same DataFrame); the editors of other files stay
\* bound to the tables of the dataset that was replaced
generate_metadata(reg, d, metadata_files, v) ==
    [f \in DOMAIN reg \cup metadata_files |->
        IF f \in metadata_files
        THEN [table |-> d.tables[f], version |-> v, shared |-> TRUE]
        ELSE [reg[f] EXCEPT !.shared = FALSE]]

NoLoadCall == [op |-> "init", version |-> <<>>, remove_empty |-> FALSE,
               from_template |-> FALSE, err |-> "none"]

load_from_template(v) ==
    LET n == convert_version_format(v)
        call == [NoLoadCall EXCEPT !.op = "load_from_template", !.version = v]
    IN  /\ version' = n
        /\ UNCHANGED <<tmpl, outdir, vlast>>
        /\ IF VersionFields(n) = Null
           THEN /\ llast' = [call EXCEPT !.err = "UnsupportedVersion"]
                /\ UNCHANGED <<subject_id_field, sample_id_field, template_version,
                               dataset, registry>>
           ELSE /\ subject_id_field' = VersionFields(n)[1]
                /\ sample_id_field' = VersionFields(n)[2]
                /\ template_version' = n
                /\ dataset' = load_dir(tmpl[n])
                /\ IF "manifest" \in DOMAIN tmpl[n].sheets
                   THEN /\ registry' = generate_metadata(registry, load_dir(tmpl[n]),
                                                         DOMAIN tmpl[n].sheets, n)
                        /\ llast' = call
                   ELSE /\ registry' = generate_metadata(registry, load_dir(tmpl[n]),
                                                         DOMAIN tmpl[n].sheets, n)
                        /\ llast' = [call EXCEPT !.err = "KeyError"]

\* dataset.py 250: self._dataset = self.load_from_template(version), which
\* returns nothing
load_dataset_result(d) == NoneDataset

\* load_dataset(from_template=True, version=v); an omitted version is <<>>
load_dataset_from_template(v) ==
    LET n == convert_version_format(v)
        call == [NoLoadCall EXCEPT !.op = "load_dataset", !.version = v,
                    !.from_template = TRUE]
        loaded == load_dir(tmpl[n])
    IN  /\ UNCHANGED <<tmpl, outdir, vlast>>
        /\ IF v = <<>>
           THEN /\ llast' = [call EXCEPT !.err = "AttributeError"]
                /\ UNCHANGED <<version, subject_id_field, sample_id_field,
                               template_version, dataset, registry>>
           ELSE IF VersionFields(n) = Null
           THEN /\ version' = n
                /\ llast' = [call EXCEPT !.err = "UnsupportedVersion"]
                /\ UNCHANGED <<subject_id_field, sample_id_field, template_version,
                               dataset, registry>>
           ELSE /\ version' = n
                /\ subject_id_field' = VersionFields(n)[1]
                /\ sample_id_field' = VersionFields(n)[2]
                /\ template_version' = n
                /\ IF "manifest" \in DOMAIN tmpl[n].sheets
                   THEN /\ dataset' = load_dataset_result(loaded)
                        /\ registry' =
                              LET g == generate_metadata(registry, loaded,
                                                         DOMAIN tmpl[n].sheets, n)
                              IN  [f \in DOMAIN g |->
                                     [g[f] EXCEPT !.shared = @ /\ ~dataset'.none]]
                        /\ llast' = call
                   ELSE /\ dataset' = loaded
                        /\ registry' = generate_metadata(registry, loaded,
                                                         DOMAIN tmpl[n].sheets, n)
                        /\ llast' = [call EXCEPT !.err = "KeyError"]

\* load_dataset(dataset_path, version=v) of the folder save() wrote; an
\* omitted version is <<>>
load_dataset_path(v) ==
    LET call == [NoLoadCall EXCEPT !.op = "load_dataset", !.version = v]
        n == IF v = <<>> THEN version ELSE convert_version_format(v)
        tv == convert_version_format(n)
        loaded == load_dir([sheets |-> outdir, others |-> {}])
        present == IF VersionFields(tv) = Null THEN {}
                   ELSE DOMAIN tmpl[tv].sheets \cap DOMAIN outdir
    IN  /\ UNCHANGED <<tmpl, outdir, vlast>>
        /\ version' = n
        /\ IF v # <<>> /\ VersionFields(n) = Null
           THEN /\ llast' = [call EXCEPT !.err = "UnsupportedVersion"]
                /\ UNCHANGED <<subject_id_field, sample_id_field, template_version,
                               dataset, registry>>
           ELSE IF outdir = <<>>
           THEN /\ llast' = [call EXCEPT !.err = "FileNotFound"]
                /\ IF v = <<>>
                   THEN UNCHANGED <<subject_id_field, sample_id_field>>
                   ELSE /\ subject_id_field' = VersionFields(n)[1]
                        /\ sample_id_field' = VersionFields(n)[2]
                /\ UNCHANGED <<template_version, dataset, registry>>
           ELSE /\ dataset' = loaded
                /\ template_version' = tv
                /\ IF VersionFields(tv) = Null
                   THEN /\ llast' = [call EXCEPT !.err = "UnsupportedVersion"]
                        /\ registry' = [f \in DOMAIN registry |->
                                          [registry[f] EXCEPT !.shared = FALSE]]
                        /\ UNCHANGED <<subject_id_field, sample_id_field>>
                   ELSE /\ subject_id_field' = VersionFields(tv)[1]
                        /\ sample_id_field' = VersionFields(tv)[2]
                        /\ IF present = DOMAIN tmpl[tv].sheets
                           THEN /\ registry' = generate_metadata(registry, loaded, present, n)
                                /\ llast' = [call EXCEPT !.err =
                                                IF "manifest" \in DOMAIN registry'
                                                THEN "none" ELSE "KeyError"]
                           ELSE \E done \in SUBSET present :
                                  /\ registry' = generate_metadata(registry, loaded, done, n)
                                  /\ llast' = [call EXCEPT !.err = "AttributeError"]

\* set_field on an entry of the loaded dataset
set_field_loaded(metadata_file, row_index, header, value) ==
    LET call == [NoLoadCall EXCEPT !.op = "set_field"]
    IN  /\ UNCHANGED <<tmpl, outdir, versionVars>>
        /\ IF NotLoaded(dataset)
           THEN /\ llast' = [call EXCEPT !.err = "NotLoaded"]
                /\ UNCHANGED <<dataset, registry>>
           ELSE IF metadata_file \notin DOMAIN dataset.tables
           THEN /\ llast' = [call EXCEPT !.err = "AttributeError"]
                /\ UNCHANGED <<dataset, registry>>
           ELSE LET t == loc_set(dataset.tables[metadata_file], row_index - 2, header, value)
                IN  /\ llast' = call
                    /\ dataset' = [dataset EXCEPT !.tables[metadata_file] = t]
                    /\ registry' = [f \in DOMAIN registry |->
                                      IF f = metadata_file /\ registry[f].shared
                                      THEN [registry[f] EXCEPT !.table = t]
                                      ELSE registry[f]]

\* _filter: only the dataset description drops the rows without a Value
filter(t, filename) ==
    IF filename = "dataset_description"
    THEN LET kept == SelectSeq([i \in 1..NRows(t) |-> i],
                               LAMBDA i : t.cells[i]["Value"] # Null)
         IN  [cols |-> t.cols,
              labels |-> [i \in 1..Len(kept) |-> t.labels[kept[i]]],
              cells |-> [i \in 1..Len(kept) |-> t.cells[kept[i]]]]
    ELSE t

\* a save that filters whatever remove_empty says
written_table_always_filtered(t, filename, remove_empty) == filter(t, filename)

\* dataset.py 278-281: the table save() writes for an entry
written_table(t, filename, remove_empty) ==
    IF remove_empty THEN filter(t, filename) ELSE t

\* DataFrame.to_excel(path, index=False)
to_excel(t) == Sheet(t.cols, t.cells)

save(remove_empty) ==
    LET call == [NoLoadCall EXCEPT !.op = "save", !.remove_empty = remove_empty]
    IN  /\ UNCHANGED <<tmpl, dataset, registry, versionVars>>
        /\ IF NotLoaded(dataset)
           THEN /\ llast' = [call EXCEPT !.err = "NotLoaded"]
                /\ UNCHANGED outdir
           ELSE IF DOMAIN dataset.tables # {} /\ VersionFields(version) = Null
           THEN /\ llast' = [call EXCEPT !.err = "UnsupportedVersion"]
                /\ UNCHANGED outdir
           ELSE /\ llast' = call
                /\ outdir' = [f \in DOMAIN outdir \cup DOMAIN dataset.tables |->
                                IF f \in DOMAIN dataset.tables
                                THEN to_excel(written_table(dataset.tables[f], f, remove_empty))
                                ELSE outdir[f]]

\* the rows of the description sheet of a template
DescriptionRows ==
    {EmptyCells,
     [EmptyCells EXCEPT !["Metadata element"] = "Title"],
     [EmptyCells EXCEPT !["Unnamed: 2"] = "note"]}

ManifestSheet == Sheet(<<"filename", "description", "timestamp", "file type">>, <<>>)

SubjectsSheet == Sheet(<<"subject id", "age", "sex">>, <<>>)

LoadInit ==
    /\ \E rows \in SeqsUpTo(DescriptionRows, MaxFileRows), unnamed \in BOOLEAN :
          tmpl = [v \in TemplateVersions |->
                    IF v = V200
                    THEN [sheets |-> [f \in {"dataset_description", "manifest", "subjects"} |->
                                        IF f = "dataset_description"
                                        THEN Sheet(IF unnamed
                                                   THEN <<"Metadata element", "Value", "Unnamed: 2">>
                                                   ELSE <<"Metadata element", "Value">>,
                                                   IF unnamed THEN rows
                                                   ELSE [i \in 1..Len(rows) |->
                                                           [rows[i] EXCEPT !["Unnamed: 2"] = Null]])
                                        ELSE IF f = "manifest" THEN ManifestSheet
                                        ELSE SubjectsSheet],
                          others |-> {"primary", "docs"}]
                    ELSE [sheets |-> [f \in {"manifest", "subjects"} |->
                                        IF f = "manifest" THEN ManifestSheet
                                        ELSE SubjectsSheet],
                          others |-> {"primary"}]]
    /\ dataset = EmptyDataset
    /\ registry = <<>>
    /\ outdir = <<>>
    /\ llast = NoLoadCall

LoadIdle ==
    /\ tmpl = <<>>
    /\ dataset = EmptyDataset
    /\ registry = <<>>
    /\ outdir = <<>>
    /\ llast = NoLoadCall

LoadVersions ==
    {<<"2", ".", "0", ".", "0">>, <<"1", ".", "2", ".", "3">>, <<"2">>, <<"3", ".", "0", ".", "0">>}

LoadFromTemplateCall == \E v \in LoadVersions : load_from_template(v)

SaveCall == \E remove_empty \in BOOLEAN : save(remove_empty)

LoadDatasetFromTemplateCall ==
    \E v \in {<<>>, <<"2", ".", "0", ".", "0">>} :
        load_dataset_from_template(v)

LoadDatasetPathCall ==
    \E v \in {<<>>, <<"1", ".", "2", ".", "3">>} :
        load_dataset_path(v)

SetFieldLoadedCall == set_field_loaded("dataset_description", 2, "Value", "v")

LoadNext ==
    \/ LoadFromTemplateCall /\ UNCHANGED <<tableVars, fsVars>>
    \/ SaveCall /\ UNCHANGED <<tableVars, fsVars>>
    \/ LoadDatasetFromTemplateCall /\ UNCHANGED <<tableVars, fsVars>>
    \/ LoadDatasetPathCall /\ UNCHANGED <<tableVars, fsVars>>
    \/ SetFieldLoadedCall /\ UNCHANGED <<tableVars, fsVars>>

(***************************************************************************)
(* Specifications                                                          *)
(***************************************************************************)
InitVersionSpec == VersionInit /\ TableIdle /\ FsIdle /\ LoadIdle

SpecVersion == InitVersionSpec /\ [][VersionNext]_vars

InitTableSpec == VersionInit /\ TableInit /\ FsIdle /\ LoadIdle

SpecTable == InitTableSpec /\ [][TableNext]_vars

InitJsonSpec == VersionInit /\ JsonTableInit /\ FsIdle /\ LoadIdle

SpecJson == InitJsonSpec /\ [][JsonNext]_vars

InitFsSpec == VersionInit /\ TableIdle /\ FsInit /\ LoadIdle

SpecFs == InitFsSpec /\ [][FsNext]_vars

InitManifestSpec == VersionInit /\ TableIdle /\ FsFormInit /\ LoadIdle

ManifestNext ==
    \/ AddDerivativeDataCall /\ UNCHANGED <<versionVars, tableVars, loadVars>>
    \/ AddThumbnailCall /\ UNCHANGED <<versionVars, tableVars, loadVars>>

SpecManifest == InitManifestSpec /\ [][ManifestNext]_vars

InitDeleteSpec == VersionInit /\ TableIdle /\ FsInit /\ LoadIdle

DeleteNext ==
    \/ DeleteSamplesCall /\ UNCHANGED <<versionVars, tableVars, loadVars>>
    \/ DeleteSubjectsCall /\ UNCHANGED <<versionVars, tableVars, loadVars>>

SpecDelete == InitDeleteSpec /\ [][DeleteNext]_vars

InitLoadSpec == VersionInit /\ TableIdle /\ FsIdle /\ LoadInit

SpecLoad == InitLoadSpec /\ [][LoadNext]_vars

(***************************************************************************)
(* C9  Version normalization: the stored result of normalising "2.0.0" and *)
(* "2_0_0" is "2_0_0", of "2" is "2_0_0"; in general every '.' becomes     *)
(* '_', every other character is kept, "_0_0" is appended exactly when the *)
(* replaced string holds no '_', and normalising the result again returns  *)
(* it unchanged.                                                           *)
(***************************************************************************)
NormalizedOf(arg, out) ==
    LET sep == \E i \in 1..Len(arg) : arg[i] \in {".", "_"}
    IN  /\ Len(out) = IF sep THEN Len(arg) ELSE Len(arg) + 4
        /\ \A i \in 1..Len(arg) : out[i] = IF arg[i] = "." THEN "_" ELSE arg[i]
        /\ ~sep => SubSeq(out, Len(arg) + 1, Len(arg) + 4) = <<"_", "0", "_", "0">>

C9_VersionNormalization ==
    /\ vlast.op = "set_version" =>
         /\ NormalizedOf(vlast.arg, version)
         /\ convert_version_format(version) = version
         /\ vlast.arg \in {<<"2", ".", "0", ".", "0">>, <<"2", "_", "0", "_", "0">>, <<"2">>}
              => version = <<"2", "_", "0", "_", "0">>
    /\ vlast.op = "set_template_version" =>
         /\ NormalizedOf(vlast.arg, template_version)
         /\ convert_version_format(template_version) = template_version

C9_Witness ==
    /\ vlast.op = "set_version"
    /\ vlast.arg = <<"2">>
    /\ version = <<"2", "_", "0", "_", "0">>

(***************************************************************************)
(* C6  Row-index convention of set_field: for a table with n data rows,    *)
(* row_index = k with 2 <= k <= n+1 changes exactly the cell (data row     *)
(* k-2, header) and nothing else; every other integer row_index fails with *)
(* RowNotFound and leaves the table, its rows and its row count unchanged. *)
(***************************************************************************)
C6_RowIndexConvention ==
    [][(tlast'.op = "set_field" /\ tlast'.err # "InvalidArgument") =>
         LET k == tlast'.row_index
             n == NRows(ds_tab)
         IN  IF 2 <= k /\ k <= n + 1
             THEN /\ tlast'.err = "none"
                  /\ ds_tab' = [AddCol(ds_tab, tlast'.header) EXCEPT
                                   !.cells[k - 1][tlast'.header] = tlast'.value]
             ELSE /\ tlast'.err = "RowNotFound"
                  /\ ds_tab' = ds_tab]_vars

(***************************************************************************)
(* C7  Append merge semantics: with check_exist and a unique_column, an    *)
(* append whose unique value occurs in exactly one row of the table        *)
(* overwrites in that row the cells named by the row's keys, changes no    *)
(* other cell and adds no row; when no row matches, one row is added.      *)
(***************************************************************************)
MatchingRows(t, column, value) == {i \in 1..NRows(t) : t.cells[i][column] = value}

MergedCells(old, row) == [c \in AllCols |-> IF c \in DOMAIN row THEN row[c] ELSE old[c]]

C7_AppendMerge ==
    [][(/\ tlast'.op = "append"
        /\ tlast'.check_exist
        /\ tlast'.unique_column \in DOMAIN tlast'.row
        /\ HasCol(md_tab, tlast'.unique_column)) =>
         LET row == tlast'.row
             m == MatchingRows(md_tab, tlast'.unique_column, row[tlast'.unique_column])
         IN  /\ Cardinality(m) = 1 =>
                  /\ tlast'.err = "none"
                  /\ NRows(md_tab') = NRows(md_tab)
                  /\ \A i \in 1..NRows(md_tab) :
                        md_tab'.cells[i] = IF i \in m THEN MergedCells(md_tab.cells[i], row)
                                           ELSE md_tab.cells[i]
                  /\ ds_tab' = md_tab'
             /\ m = {} =>
                  /\ tlast'.err = "none"
                  /\ NRows(md_tab') = NRows(md_tab) + 1
                  /\ ds_tab' = md_tab']_vars

OneRowPerFilename(rows) ==
    \A i, j \in 1..Len(rows) : rows[i].filename = rows[j].filename => i = j

C1_ManifestUnique ==
    /\ OneRowPerFilename(man_mem)
    /\ man_disk.exists => OneRowPerFilename(man_disk.rows)

\* a listed file has been added again: its row kept its description and
\* carries the time of the second addition
C1_Witness ==
    /\ fops = 2
    /\ flast.op = "add_thumbnail"
    /\ flast.err = "none"
    /\ Len(man_mem) >= 2
    /\ \E i \in 1..Len(man_mem) :
          /\ man_mem[i].filename = <<"docs", "a.txt">>
          /\ man_mem[i].timestamp = 2

(***************************************************************************)
(* C2  Manifest upsert idempotence: a successful add_derivative_data or    *)
(* add_thumbnail with overwrite that adds files already listed in the      *)
(* manifest leaves exactly one row per added file, changes nothing in the  *)
(* listed rows but the timestamp of the added files' rows (description and *)
(* file type are kept, whatever description the call supplies), and leaves *)
(* every other row unchanged.                                              *)
(***************************************************************************)
\* the manifest filenames of the files a call adds
AddedFilenames(call) ==
    LET sources == IF call.path \in dirs THEN Children(World, call.path) \cap files
                   ELSE {call.path}
        folder == IF call.op = "add_thumbnail" THEN <<"docs">>
                  ELSE <<call.data_type, call.subject, call.sample>>
    IN  {Append(folder, Name(f)) : f \in sources}

C2_UpsertIdempotence ==
    [][(/\ flast'.op \in {"add_derivative_data", "add_thumbnail"}
        /\ flast'.err = "none"
        /\ flast'.overwrite
        /\ man_disk.exists) =>
         LET K == AddedFilenames(flast')
         IN  /\ Len(man_mem') >= Len(man_disk.rows)
             /\ \A i \in 1..Len(man_disk.rows) :
                   IF man_disk.rows[i].filename \in K
                   THEN man_mem'[i] = [man_disk.rows[i] EXCEPT
                                          !.timestamp = man_mem'[i].timestamp]
                   ELSE man_mem'[i] = man_disk.rows[i]
             /\ \A k \in K :
                   Cardinality({i \in 1..Len(man_mem') : man_mem'[i].filename = k}) = 1
             /\ man_disk'.rows = man_mem']_vars

\* the thumbnail a loaded dataset lists under another description has been
\* added again
C2_Witness ==
    /\ flast.op = "add_thumbnail"
    /\ flast.err = "none"
    /\ flast.overwrite
    /\ \E i \in 1..Len(man_mem) :
          /\ man_mem[i].filename = <<"docs", "a.txt">>
          /\ man_mem[i].description = LoadedDescription
          /\ man_mem[i].description # ThumbnailDescription
          /\ man_mem[i].timestamp = fops
          /\ fops > 0

(***************************************************************************)
(* C3  Cascading delete: delete_subject(path, "primary") on a subject      *)
(* folder whose items are sample folders holding only regular files        *)
(* removes the sample folders and the subject folder from disk, removes    *)
(* the samples' rows and the subject's row from their tables and leaves no *)
(* manifest row, in the registry or on disk, for a deleted file.           *)
(***************************************************************************)
C3_CascadingDelete ==
    [][(/\ flast'.op = "delete_subject"
        /\ flast'.data_type = "primary"
        /\ flast'.path \in dirs
        /\ \E q \in dirs : Len(q) = Len(flast'.path) + 1 /\ IsPrefix(flast'.path, q)
        /\ \A q \in dirs \cup files :
              (IsPrefix(flast'.path, q) /\ Len(q) = Len(flast'.path) + 1) => q \in dirs
        /\ \A q \in dirs \cup files :
              (IsPrefix(flast'.path, q) /\ Len(q) = Len(flast'.path) + 2) => q \in files
        /\ PrimaryFolder \in dirs) =>
         LET sub == flast'.path
             sams == {q \in dirs : Len(q) = Len(sub) + 1 /\ IsPrefix(sub, q)}
             gone == {StripRoot(q) : q \in {f \in files : IsPrefix(sub, f)}}
         IN  /\ flast'.err = "none"
             /\ \A q \in dirs' \cup files' : ~IsPrefix(sub, q)
             /\ \A r \in sam_rows' : \A q \in sams : r.sample # Name(q)
             /\ \A r \in sub_rows' : r.subject # Name(sub)
             /\ \A i \in 1..Len(man_mem') : man_mem'[i].filename \notin gone
             /\ man_disk'.exists =>
                  \A i \in 1..Len(man_disk'.rows) : man_disk'.rows[i].filename \notin gone]_vars

\* a subject with two samples of one file each has been deleted and the
\* other subject is still there
C3_Witness ==
    /\ fops = 1
    /\ flast.op = "delete_subject"
    /\ flast.data_type = "primary"
    /\ flast.err = "none"
    /\ flast.path = Root \o <<"primary", "sub-1">>
    /\ flast.path \notin dirs
    /\ Root \o <<"primary", "sub-2", "sam-1">> \in dirs
    /\ Len(man_mem) = 2

(***************************************************************************)
(* C4  Count recompute: right after a completed add_subjects,              *)
(* delete_subject(primary) or delete_sample(primary), "Number of subjects" *)
(* is the number of sub-directories of primary/ and "Number of samples"    *)
(* the number of sub-directories of those subject directories.             *)
(***************************************************************************)
PrimarySubjectDirs == {p \in dirs : Len(p) = Len(PrimaryFolder) + 1 /\ IsPrefix(PrimaryFolder, p)}

PrimarySampleDirs == {p \in dirs : Len(p) = Len(PrimaryFolder) + 2 /\ IsPrefix(PrimaryFolder, p)}

C4_CountRecompute ==
    (/\ flast.err = "none"
     /\ \/ flast.op = "add_subjects"
        \/ flast.op \in {"delete_subject", "delete_sample"} /\ flast.data_type = "primary") =>
        /\ counts.subjects = Cardinality(PrimarySubjectDirs)
        /\ counts.samples = Cardinality(PrimarySampleDirs)

\* the tree {sub-1: [sam-1, sam-2], sub-2: [sam-1]} built by add_subjects
C4_Witness ==
    /\ flast.op = "add_subjects"
    /\ flast.err = "none"
    /\ fops = 1
    /\ {Name(p) : p \in PrimarySubjectDirs} = {"sub-1", "sub-2"}
    /\ Cardinality(PrimarySampleDirs) = 3
    /\ counts = [subjects |-> 2, samples |-> 3]
    /\ man_mem = <<>>

(***************************************************************************)
(* C5  Nested-directory guard: an add of a source directory that holds a   *)
(* sub-directory among its items copies or moves no file into the          *)
(* destination and leaves the manifest unchanged, in whatever order the    *)
(* items are listed.                                                       *)
(***************************************************************************)
C5_NestedDirGuard ==
    [][(/\ flast'.op = "add_derivative_data"
        /\ flast'.path \in dirs
        /\ \E q \in dirs : Len(q) = Len(flast'.path) + 1 /\ IsPrefix(flast'.path, q)) =>
         LET dest == Root \o <<flast'.data_type, flast'.subject, flast'.sample>>
         IN  /\ {f \in files' : IsPrefix(dest, f)} \subseteq {f \in files : IsPrefix(dest, f)}
             /\ {f \in files' : IsPrefix(flast'.path, f)} = {f \in files : IsPrefix(flast'.path, f)}
             /\ man_mem' = man_mem
             /\ man_disk' = man_disk]_vars

(***************************************************************************)
(* C10  Round trip: load_from_template(version) followed at once by        *)
(* save(dest) writes to dest exactly the metadata files of the template,   *)
(* each with the columns, in order, and the rows and cell values of the    *)
(* table as loaded.                                                        *)
(***************************************************************************)
C10_RoundTrip ==
    [][(/\ llast.op = "load_from_template"
        /\ llast.err = "none"
        /\ outdir = <<>>
        /\ llast'.op = "save"
        /\ ~llast'.remove_empty) =>
         /\ llast'.err = "none"
         /\ DOMAIN outdir' = DOMAIN tmpl[version].sheets
         /\ \A f \in DOMAIN outdir' :
              /\ outdir'[f].cols = dataset.tables[f].cols
              /\ outdir'[f].cells = dataset.tables[f].cells]_vars

\* a template whose description has a row without a Value has been loaded
\* and saved: the row is in the written file
C10_Witness ==
    /\ llast.op = "save"
    /\ llast.err = "none"
    /\ ~llast.remove_empty
    /\ "dataset_description" \in DOMAIN outdir
    /\ Len(tmpl[V200].sheets["dataset_description"].cells) = 2
    /\ Len(outdir["dataset_description"].cells) = 1
    /\ outdir["dataset_description"].cells[1]["Value"] = Null
    /\ outdir["dataset_description"].cells[1]["Metadata element"] = "Title"

(***************************************************************************)
(* C11  get_subject fails with NotFound whenever the id is not a key of    *)
(* the subject index (also when the id is not a string); it returns a      *)
(* subject only for ids registered by add_subjects and never returns an    *)
(* empty result.                                                           *)
(***************************************************************************)
C11_GetSubjectNotFound ==
    [][flast'.op = "get_subject" =>
         /\ (~flast'.is_string \/ flast'.subject \notin subject_index)
               => flast'.err = "NotFound"
         /\ flast'.err = "none" =>
               /\ flast'.result = flast'.subject
               /\ flast'.result \in subject_index
               /\ flast'.result # Null]_vars

(***************************************************************************)
(* C18  Ordering in add_subjects: the save completes before any subject is *)
(* registered or moved, each subject is registered before its move, the    *)
(* subjects are processed in list order and the counts are recomputed only *)
(* after every move has returned: when the move of the k-th subject fails, *)
(* subjects 1..k are in the index, the later ones are not newly            *)
(* registered, and the counts are left as they were.                       *)
(***************************************************************************)
\* the subject whose move fails
Unmovable == {o.id : o \in {x \in SubjectObjects : ~x.source_ok}}

\* the position of the first subject of the list whose move fails, 0 if none
FirstFailing(ids) ==
    IF \E k \in 1..Len(ids) : ids[k] \in Unmovable
    THEN CHOOSE k \in 1..Len(ids) :
            ids[k] \in Unmovable /\ \A j \in 1..(k - 1) : ids[j] \notin Unmovable
    ELSE 0

C18_AddSubjectsOrdering ==
    [][(flast'.op = "add_subjects" /\ flast'.err # "InvalidArgument") =>
         LET ids == flast'.path
             k == FirstFailing(ids)
         IN  /\ man_disk' = [exists |-> TRUE, rows |-> man_mem]
             /\ IF k = 0
                THEN /\ flast'.err = "none"
                     /\ subject_index' = subject_index \cup {ids[i] : i \in 1..Len(ids)}
                     /\ \A i \in 1..Len(ids) : Append(PrimaryFolder, ids[i]) \in dirs'
                     /\ counts'.subjects =
                          Cardinality({p \in dirs' : Len(p) = Len(PrimaryFolder) + 1
                                                      /\ IsPrefix(PrimaryFolder, p)})
                ELSE /\ flast'.err = "MoveFailed"
                     /\ subject_index' = subject_index \cup {ids[i] : i \in 1..k}
                     /\ \A i \in 1..(k - 1) : Append(PrimaryFolder, ids[i]) \in dirs'
                     /\ counts' = counts]_vars

\* sub-1 was moved, then the move of sub-3 failed: both are registered, the
\* folder of sub-1 is there and the counts do not count it
C18_Witness ==
    /\ flast.op = "add_subjects"
    /\ flast.path = <<"sub-1", "sub-3">>
    /\ flast.err = "MoveFailed"
    /\ subject_index = {"sub-1", "sub-3"}
    /\ Append(PrimaryFolder, "sub-1") \in dirs
    /\ counts.subjects = 0
    /\ man_disk.exists

(***************************************************************************)
(* C12  Schema selection: set_version and set_template_version fail with   *)
(* UnsupportedVersion unless the normalized version is exactly "2_0_0" or  *)
(* "1_2_3"; on success the identifier fields are ("subject id",            *)
(* "sample id") for 2_0_0 and ("subject_id", "sample_id") for 1_2_3.       *)
(***************************************************************************)
C12_SchemaSelection ==
    vlast.op \in {"set_version", "set_template_version"} =>
        LET n == IF vlast.op = "set_version" THEN version ELSE template_version
        IN  /\ NormalizedOf(vlast.arg, n)
            /\ vlast.err \in {"none", "UnsupportedVersion"}
            /\ vlast.err = "none" <=>
                 n \in {<<"2", "_", "0", "_", "0">>, <<"1", "_", "2", "_", "3">>}
            /\ (vlast.err = "none" /\ n = <<"2", "_", "0", "_", "0">>) =>
                 /\ subject_id_field = "subject id"
                 /\ sample_id_field = "sample id"
            /\ (vlast.err = "none" /\ n = <<"1", "_", "2", "_", "3">>) =>
                 /\ subject_id_field = "subject_id"
                 /\ sample_id_field = "sample_id"

\* the template version 1.2.3 has been selected
C12_Witness ==
    /\ vlast.op = "set_template_version"
    /\ vlast.arg = <<"1", ".", "2", ".", "3">>
    /\ vlast.err = "none"
    /\ subject_id_field = "subject_id"
    /\ sample_id_field = "sample_id"

(***************************************************************************)
(* C13  Overwrite semantics of the sample data add when the destination    *)
(* folder already exists: without overwrite the call fails with            *)
(* AlreadyExists and changes neither the disk nor the manifest; with       *)
(* overwrite and a file source every file of the destination but the one   *)
(* with the source's name is still there afterwards; with overwrite and a  *)
(* directory source the destination holds nothing but the added items.     *)
(***************************************************************************)
C13_OverwriteSemantics ==
    [][(/\ flast'.op = "add_derivative_data"
        /\ Root \o <<flast'.data_type, flast'.subject, flast'.sample>> \in dirs) =>
         LET dest == Root \o <<flast'.data_type, flast'.subject, flast'.sample>>
             source == flast'.path
             before == {f \in files : IsPrefix(dest, f)}
             after == {f \in files' : IsPrefix(dest, f)}
         IN  /\ ~flast'.overwrite =>
                  /\ flast'.err = "AlreadyExists"
                  /\ files' = files
                  /\ dirs' = dirs
                  /\ man_mem' = man_mem
                  /\ man_disk' = man_disk
             /\ (flast'.overwrite /\ source \in files) =>
                  /\ flast'.err = "none"
                  /\ \A f \in before : f # Append(dest, Name(source)) => f \in after
                  /\ Append(dest, Name(source)) \in after
             /\ (flast'.overwrite /\ source \in dirs) =>
                  /\ \A f \in after :
                        \E g \in files : Parent(g) = source /\ f = Append(dest, Name(g))
                  /\ \A d \in dirs' : IsPrefix(dest, d) => d = dest]_vars

\* a.txt was added again with overwrite to a destination that also held
\* b.PNG: b.PNG is still there
C13_Witness ==
    /\ fops = 2
    /\ flast.op = "add_derivative_data"
    /\ flast.overwrite
    /\ flast.err = "none"
    /\ flast.path = Append(Ext, "a.txt")
    /\ Root \o <<"derivative", "sub-1", "sam-1", "b.PNG">> \in files
    /\ Root \o <<"derivative", "sub-1", "sam-1", "a.txt">> \in files
    /\ \E i \in 1..Len(man_mem) :
          /\ man_mem[i].filename = <<"derivative", "sub-1", "sam-1", "a.txt">>
          /\ man_mem[i].timestamp = 2

(***************************************************************************)
(* C14  add_thumbnail: for a regular file source, with copy and without,   *)
(* the call leaves the file at docs/<filename> (the source still there iff *)
(* copy) and exactly one manifest row named docs/<filename>; a source that *)
(* is not a file fails with InvalidArgument and an existing destination    *)
(* without overwrite fails with AlreadyExists, both changing neither the   *)
(* disk nor the manifest.                                                  *)
(***************************************************************************)
C14_AddThumbnail ==
    [][flast'.op = "add_thumbnail" =>
         LET source == flast'.path
             dest == Root \o <<"docs", Name(source)>>
             unchanged == /\ files' = files
                          /\ dirs' = dirs
                          /\ man_mem' = man_mem
                          /\ man_disk' = man_disk
         IN  IF source \notin files
             THEN flast'.err = "InvalidArgument" /\ unchanged
             ELSE IF (dest \in files \/ dest \in dirs) /\ ~flast'.overwrite
             THEN flast'.err = "AlreadyExists" /\ unchanged
             ELSE /\ flast'.err = "none"
                  /\ dest \in files'
                  /\ source \in files' <=> flast'.copy
                  /\ Cardinality({i \in 1..Len(man_mem') :
                                    man_mem'[i].filename = <<"docs", Name(source)>>}) = 1
                  /\ man_disk' = [exists |-> TRUE, rows |-> man_mem']]_vars

(***************************************************************************)
(* C15  delete_data(path): a missing path fails with NotFound and changes  *)
(* nothing; a regular file is removed together with the manifest row whose *)
(* filename is the path below the dataset root, the manifest is persisted  *)
(* and its other rows are unchanged; a directory is removed recursively    *)
(* and the manifest is left unchanged.                                     *)
(***************************************************************************)
C15_DeleteData ==
    [][flast'.op = "delete_data" =>
         LET p == flast'.path
             key == SubSeq(p, Len(Root) + 1, Len(p))
         IN  IF p \notin files /\ p \notin dirs
             THEN /\ flast'.err = "NotFound"
                  /\ files' = files /\ dirs' = dirs
                  /\ man_mem' = man_mem /\ man_disk' = man_disk
             ELSE IF p \in files
             THEN /\ flast'.err = "none"
                  /\ files' = files \ {p}
                  /\ dirs' = dirs
                  /\ man_mem' = SelectSeq(man_mem, LAMBDA r : r.filename # key)
                  /\ man_disk' = [exists |-> TRUE, rows |-> man_mem']
             ELSE /\ flast'.err = "none"
                  /\ files' = {f \in files : ~IsPrefix(p, f)}
                  /\ dirs' = {d \in dirs : ~IsPrefix(p, d)}
                  /\ man_mem' = man_mem
                  /\ man_disk' = man_disk]_vars

\* a directory holding a listed file has been deleted, its row is still in
\* the manifest; then a listed file has been deleted and its row is gone
C15_Witness ==
    /\ fops = 2
    /\ flast.op = "delete_data"
    /\ flast.err = "none"
    /\ flast.path = Root \o <<"primary", "sub-1", "sam-1", "a.txt">>
    /\ Root \o <<"primary", "sub-1", "sam-1", "nested">> \notin dirs
    /\ Root \o <<"primary", "sub-1", "sam-1">> \in dirs
    /\ \A i \in 1..Len(man_mem) :
          man_mem[i].filename # <<"primary", "sub-1", "sam-1", "a.txt">>
    /\ \E i \in 1..Len(man_mem) :
          man_mem[i].filename = <<"primary", "sub-1", "sam-1", "nested", "b.PNG">>
    /\ Len(man_mem) = 2
    /\ man_disk.rows = man_mem

(***************************************************************************)
(* C16  Manifest persistence on sync: after every successful run of the    *)
(* manifest synchroniser, whatever the supported on-disk form of the       *)
(* manifest (.xlsx, .csv, .json), the manifest file on disk and the        *)
(* registry's manifest table both hold the new or updated row and are      *)
(* equal.                                                                  *)
(***************************************************************************)
\* the calls that get as far as the synchroniser: a regular file is added
SyncRuns(call) ==
    /\ call.path \in files
    /\ \/ /\ call.op = "add_thumbnail"
          /\ call.copy
          /\ Root \o <<"docs", Name(call.path)>> \in files => call.overwrite
       \/ /\ call.op = "add_derivative_data"
          /\ Root \o <<"derivative", call.subject, call.sample>> \in dirs => call.overwrite

\* the manifest key of the file the call adds
SyncKey(call) ==
    IF call.op = "add_thumbnail" THEN <<"docs", Name(call.path)>>
    ELSE <<"derivative", call.subject, call.sample, Name(call.path)>>

C16_ManifestPersistence ==
    [][(SyncRuns(flast') /\ flast'.err = "none") =>
         /\ \E i \in 1..Len(man_mem') :
               /\ man_mem'[i].filename = SyncKey(flast')
               /\ man_mem'[i].timestamp = fops'
         /\ man_disk'.exists
         /\ man_disk'.rows = man_mem']_vars

(***************************************************************************)
(* C17  Manifest format selection: the synchroniser fails with             *)
(* UnsupportedManifestFormat exactly when the dataset's manifest has an    *)
(* extension other than .xlsx, .csv or .json; when a manifest in a         *)
(* supported form is in the folder it does not fail because of another     *)
(* entry whose name contains "manifest"; when no entry contains "manifest" *)
(* a fresh table with the four columns is created.                         *)
(***************************************************************************)
\* the manifest files of the folder, by form
SupportedManifests == {"manifest.xlsx", "manifest.csv", "manifest.json"}

C17_ManifestFormat ==
    [][SyncRuns(flast') =>
         LET listed == {man_names[i] : i \in 1..Len(man_names)}
         IN  /\ flast'.err = "UnsupportedManifestFormat" <=> "manifest.txt" \in listed
             /\ listed \cap SupportedManifests # {}
                  => flast'.err # "UnsupportedManifestFormat"
             /\ listed = {} =>
                  /\ flast'.err = "none"
                  /\ Len(man_mem') = 1
                  /\ man_mem'[1].filename = SyncKey(flast')
                  /\ DOMAIN man_mem'[1] = {"filename", "description", "timestamp", "filetype"}
                  /\ man_disk' = [exists |-> TRUE, rows |-> man_mem']]_vars

(***************************************************************************)
(* C19  set_field_using_row_name fails with RowNotFound when no row has    *)
(* row_name in the first column and with AmbiguousRow when several have,   *)
(* leaving the table unchanged; when exactly one row has it, that row's    *)
(* cell under header is set, nothing else changes and no row is added,     *)
(* also when the row labels are not contiguous.                            *)
(***************************************************************************)
C19_SetFieldByRowName ==
    [][tlast'.op = "set_field_using_row_name" =>
         LET named == {i \in 1..NRows(ds_tab) :
                          ds_tab.cells[i][ds_tab.cols[1]] = tlast'.row_name}
         IN  /\ named = {} =>
                  /\ tlast'.err = "RowNotFound"
                  /\ ds_tab' = ds_tab /\ md_tab' = md_tab
             /\ Cardinality(named) > 1 =>
                  /\ tlast'.err = "AmbiguousRow"
                  /\ ds_tab' = ds_tab /\ md_tab' = md_tab
             /\ Cardinality(named) = 1 =>
                  LET i == CHOOSE x \in named : TRUE
                  IN  /\ tlast'.err = "none"
                      /\ ds_tab'.labels = ds_tab.labels
                      /\ ds_tab'.cols = IF \E c \in 1..Len(ds_tab.cols) :
                                              ds_tab.cols[c] = tlast'.header
                                        THEN ds_tab.cols
                                        ELSE Append(ds_tab.cols, tlast'.header)
                      /\ ds_tab'.cells = [ds_tab.cells EXCEPT
                                             ![i][tlast'.header] = tlast'.value]]_vars

\* the second row of a sheet whose first row is empty has been set by name:
\* its label is 1, it is the only row, and no row was added
C19_Witness ==
    /\ tops = 1
    /\ tlast.op = "set_field_using_row_name"
    /\ tlast.err = "none"
    /\ tlast.row_name = "sub-1"
    /\ ds_tab.labels = <<1>>
    /\ ds_tab.cells[1]["sex"] = "F"
    /\ ds_tab.cells[1][ds_tab.cols[1]] = "sub-1"

(***************************************************************************)
(* C20  Lifecycle: on a freshly created Dataset save and the mutation      *)
(* operations fail with NotLoaded; after a successful load_from_template,  *)
(* load_dataset(path) or load_dataset(from_template=True, version=v) the   *)
(* Dataset is loaded, so that a save or a mutation that follows does not   *)
(* fail with NotLoaded.                                                    *)
(***************************************************************************)
C20_Lifecycle ==
    [][llast'.op \in {"save", "set_field"} =>
         /\ llast.op = "init" => llast'.err = "NotLoaded"
         /\ (llast.op \in {"load_from_template", "load_dataset"} /\ llast.err = "none")
               => llast'.err # "NotLoaded"]_vars

(***************************************************************************)
(* C29  State unchanged on a rejected version: when set_version (or        *)
(* set_template_version) fails with UnsupportedVersion, the stored version *)
(* (respectively the template version) and the subject and sample          *)
(* identifier field names are the same as before the call.                 *)
(***************************************************************************)
C29_RejectedVersionKeepsState ==
    [][vlast'.err = "UnsupportedVersion" =>
         /\ vlast'.op = "set_version" => version' = version
         /\ vlast'.op = "set_template_version" => template_version' = template_version
         /\ subject_id_field' = subject_id_field
         /\ sample_id_field' = sample_id_field]_vars

(***************************************************************************)
(* C21  Fail-fast without rollback in delete_subjects / delete_samples:    *)
(* the paths are processed in list order; when the k-th path is the first  *)
(* invalid one (missing or not a directory) the call fails there, the      *)
(* paths 1..k-1 are deleted with their table rows and manifest rows, and   *)
(* the paths after k are untouched on disk and in the tables.              *)
(***************************************************************************)
FirstInvalid(paths) ==
    IF \E i \in 1..Len(paths) : paths[i] \notin dirs
    THEN CHOOSE i \in 1..Len(paths) :
            paths[i] \notin dirs /\ \A j \in 1..(i - 1) : paths[j] \in dirs
    ELSE 0

RowsNaming(rows, p) == {r \in rows : \E c \in DOMAIN r : r[c] = Name(p)}

\* the files delete_sample hands to delete_data one by one: the regular files
\* directly in a sample folder
SampleFilesOf(op, p) ==
    {f \in files : /\ IsPrefix(p, f)
                   /\ Len(f) = Len(p) + (IF op = "delete_subjects" THEN 2 ELSE 1)}

C21_PluralDeleteFailFast ==
    [][(/\ flast'.op \in {"delete_subjects", "delete_samples"}
        /\ flast'.is_list
        /\ FirstInvalid(flast'.paths) > 0) =>
         LET paths == flast'.paths
             k == FirstInvalid(paths)
             table == IF flast'.op = "delete_subjects" THEN sub_rows ELSE sam_rows
             table2 == IF flast'.op = "delete_subjects" THEN sub_rows' ELSE sam_rows'
         IN  /\ flast'.err = IF paths[k] \in files THEN "InvalidArgument" ELSE "NotFound"
             /\ \A i \in 1..(k - 1) :
                  /\ \A q \in dirs' \cup files' : ~IsPrefix(paths[i], q)
                  /\ RowsNaming(table2, paths[i]) = {}
                  /\ \A n \in 1..Len(man_mem') :
                        man_mem'[n].filename \notin
                           {StripRoot(f) : f \in SampleFilesOf(flast'.op, paths[i])}
             /\ \A i \in (k + 1)..Len(paths) :
                  /\ \A q \in dirs : IsPrefix(paths[i], q) => q \in dirs'
                  /\ \A q \in files : IsPrefix(paths[i], q) => q \in files'
                  /\ RowsNaming(table, paths[i]) \subseteq table2
                  /\ \A n \in 1..Len(man_mem) :
                        IsPrefix(StripRoot(paths[i]), man_mem[n].filename)
                           => \E m \in 1..Len(man_mem') : man_mem'[m] = man_mem[n]]_vars

(***************************************************************************)
(* C25  delete_subject removes the subject folder: for an existing subject *)
(* directory, once its immediate sample folders have been deleted the      *)
(* subject folder itself is removed; a call that has deleted the sample    *)
(* folders never ends with the subject folder still on disk, also when the *)
(* subject folder directly holds regular files.                            *)
(***************************************************************************)
C25_SubjectFolderRemoved ==
    [][(/\ flast'.op = "delete_subject"
        /\ flast'.path \in dirs
        /\ \E q \in dirs : Parent(q) = flast'.path
        /\ \A q \in dirs : Parent(q) = flast'.path => q \notin dirs') =>
         flast'.path \notin dirs']_vars

(***************************************************************************)
(* C26  Frame of the non-primary deletes: delete_subject and delete_sample *)
(* called with a data type other than "primary" leave the subjects table,  *)
(* the samples table and the "Number of subjects" / "Number of samples"    *)
(* values unchanged, also through the cascade from delete_subject into     *)
(* delete_sample; only folders and files below the path and manifest rows  *)
(* of deleted files go away.                                               *)
(***************************************************************************)
C26_NonPrimaryDeleteFrame ==
    [][(/\ flast'.op \in {"delete_subject", "delete_sample"}
        /\ flast'.data_type # "primary") =>
         /\ sub_rows' = sub_rows
         /\ sam_rows' = sam_rows
         /\ counts' = counts
         /\ subject_index' = subject_index
         /\ dirs' \subseteq dirs
         /\ files' \subseteq files
         /\ \A q \in (dirs \ dirs') \cup (files \ files') : IsPrefix(flast'.path, q)
         /\ \A i \in 1..Len(man_mem') : \E j \in 1..Len(man_mem) : man_mem'[i] = man_mem[j]
         /\ \A j \in 1..Len(man_mem) :
              (\A i \in 1..Len(man_mem') : man_mem'[i] # man_mem[j])
                 => Root \o man_mem[j].filename \in files \ files']_vars

\* a subject folder with its sample folders has been deleted as derivative
\* data: the folders are gone, the tables and the counts are as loaded
C26_Witness ==
    /\ fops = 1
    /\ flast.op = "delete_subject"
    /\ flast.data_type = "derivative"
    /\ flast.err = "none"
    /\ flast.path = Root \o <<"primary", "sub-1">>
    /\ flast.path \notin dirs
    /\ SamplePath("primary", "sub-1", "sam-2") \notin dirs
    /\ [subject |-> "sub-1"] \in sub_rows
    /\ [subject |-> "sub-1", sample |-> "sam-2"] \in sam_rows
    /\ counts = [subjects |-> 2, samples |-> 3]
    /\ Len(man_mem) = 2

(***************************************************************************)
(* C28  No orphaned manifest rows after an overwriting add: after a        *)
(* successful sample data add with overwrite into a destination folder     *)
(* that existed, every manifest row whose filename lies under that folder  *)
(* names a file that is on disk; rows of files the overwrite wiped do not  *)
(* remain.                                                                 *)
(***************************************************************************)
C28_NoOrphanRows ==
    [][(/\ flast'.op = "add_derivative_data"
        /\ flast'.overwrite
        /\ flast'.err = "none"
        /\ SamplePath(flast'.data_type, flast'.subject, flast'.sample) \in dirs) =>
         LET destination_path ==
                 SamplePath(flast'.data_type, flast'.subject, flast'.sample)
         IN  \A i \in 1..Len(man_mem') :
                IsPrefix(StripRoot(destination_path), man_mem'[i].filename)
                   => Root \o man_mem'[i].filename \in files']_vars

(***************************************************************************)
(* C23  update_by_json value storage: for every key of the document, top   *)
(* level or nested one level (matched with a four-space prefix), the       *)
(* matching row's "Value" cell receives the key's value, a list as its     *)
(* literal text and any other value as it is, for every nested key         *)
(* whatever the values of the nested keys before it; a key with no         *)
(* matching row makes the call fail.                                       *)
(***************************************************************************)
RECURSIVE JsonFields(_)
JsonFields(data) ==
    IF data = <<>> THEN <<>>
    ELSE LET entry == Head(data)
         IN  (IF entry.is_dict
              THEN [i \in 1..Len(entry.items) |->
                       <<Indent(entry.items[i][1]), entry.items[i][2]>>]
              ELSE <<<<entry.key, entry.value>>>>) \o JsonFields(Tail(data))

StoredForm(value) == IF IsList(value) THEN StrOf(value) ELSE value

C23_UpdateByJsonValues ==
    [][tlast'.op = "update_by_json" =>
         LET fields == JsonFields(tlast'.doc)
         IN  IF \E i \in 1..Len(fields) : element_indices(ds_tab, fields[i][1]) = <<>>
             THEN tlast'.err # "none"
             ELSE /\ tlast'.err = "none"
                  /\ \A i \in 1..Len(fields) :
                       LET index == element_indices(ds_tab, fields[i][1])[1]
                       IN  ds_tab'.cells[PosOf(ds_tab', index)]["Value"]
                              = StoredForm(fields[i][2])]_vars

(***************************************************************************)
(* C24  add_element: for a column-based file it adds exactly one new last  *)
(* row whose element-name cell is the element and whose other cells are    *)
(* empty, leaving the columns and the existing rows unchanged; for every   *)
(* other file it adds exactly one column named element, null in every      *)
(* existing row, leaving the row count and all other cells unchanged.      *)
(***************************************************************************)
C24_AddElement ==
    [][tlast'.op = "add_element" =>
         LET element == tlast'.header
         IN  IF tfile \in column_based
             THEN /\ ds_tab'.cols = ds_tab.cols
                  /\ NRows(ds_tab') = NRows(ds_tab) + 1
                  /\ \A i \in 1..NRows(ds_tab) : ds_tab'.cells[i] = ds_tab.cells[i]
                  /\ ds_tab'.cells[NRows(ds_tab')] =
                        [EmptyCells EXCEPT !["Metadata element"] = element]
             ELSE /\ ds_tab'.cols = Append(ds_tab.cols, element)
                  /\ NRows(ds_tab') = NRows(ds_tab)
                  /\ ds_tab'.labels = ds_tab.labels
                  /\ \A i \in 1..NRows(ds_tab) :
                       /\ ds_tab'.cells[i][element] = Null
                       /\ \A c \in AllCols \ {element} :
                             ds_tab'.cells[i][c] = ds_tab.cells[i][c]]_vars

(***************************************************************************)
(* C27  Registry/model agreement: after any sequence of set_field,         *)
(* set_field_using_row_name, append and add_element on a loaded dataset,   *)
(* the table held by the registry editor of a metadata file and the table  *)
(* held in the dataset entry are the same table: same columns, rows and    *)
(* cell values.                                                            *)
(***************************************************************************)
C27_RegistryAgreement ==
    /\ md_tab.cols = ds_tab.cols
    /\ md_tab.labels = ds_tab.labels
    /\ md_tab.cells = ds_tab.cells

(***************************************************************************)
(* C22  Registry rebuild: after every successful load (load_from_template  *)
(* or load_dataset) the keys of the metadata registry are exactly the      *)
(* metadata files of that load and every editor is bound to a table of     *)
(* that load; no editor created by an earlier load survives.               *)
(***************************************************************************)
C22_RegistryRebuild ==
    [][(/\ llast'.op \in {"load_from_template", "load_dataset"}
        /\ llast'.err = "none") =>
         LET v == convert_version_format(version')
             loaded == IF llast'.op = "load_from_template" \/ llast'.from_template
                       THEN load_dir(tmpl[v]).tables
                       ELSE load_dir([sheets |-> outdir, others |-> {}]).tables
         IN  /\ DOMAIN registry' = DOMAIN tmpl[v].sheets
             /\ \A f \in DOMAIN registry' :
                  /\ f \in DOMAIN loaded
                  /\ registry'[f].table = loaded[f]]_vars
====
